---- MODULE Spec2Model ----
(***************************************************************************)
(* Model of the merge engine of openapi-merge (internal/merger).           *)
(*                                                                         *)
(* Strings that the code takes apart (paths, component names, prefixes,    *)
(* glob patterns) are sequences of one-character strings; strings that are *)
(* only compared (tags, parameter names, locations, methods) are TLA+      *)
(* strings.  A Go pointer that may be nil is a sequence of length 0 or 1.  *)
(* A Go map is a function whose domain is the set of keys present.         *)
(***************************************************************************)
EXTENDS Integers, Sequences, FiniteSets, TLC

VARIABLES
    inputs,             \* m.cfg.Inputs, each with the document its file holds
    cfg,                \* the global part of m.cfg
    i,                  \* index of the input being processed by Merge's loop
    pc,                 \* position inside Merge
    spec,               \* the document being processed (local `spec` of Merge)
    orig,               \* history: the document as the first stage received it
    prev,               \* history: the document before the last stage ran
    master,             \* m.master, the composite
    err,                \* the error Merge returns (<<>> while there is none)
    mergedDescriptions, \* local slice of Merge
    output,             \* the output file (<<>> while not written)
    log,                \* history: the stages run so far, as <<stage, input index>>
    folded,             \* history: each document as mergeSpec received it
    env,                \* the process environment (GITHUB_TOKEN)
    requests            \* history: the HTTP requests sent, with their headers

vars == <<inputs, cfg, i, pc, spec, orig, prev, master, err,
          mergedDescriptions, output, log, folded, env, requests>>

----------------------------------------------------------------------------
(* Generic helpers.                                                        *)

Range(f) == {f[x] : x \in DOMAIN f}

\* strings.HasPrefix
HasPrefix(s, p) == Len(p) <= Len(s) /\ SubSeq(s, 1, Len(p)) = p

\* strings.TrimPrefix
TrimPrefix(s, p) == IF HasPrefix(s, p) THEN SubSeq(s, Len(p) + 1, Len(s)) ELSE s

\* strings.HasSuffix / strings.TrimSuffix
HasSuffix(s, p) == Len(p) <= Len(s) /\ SubSeq(s, Len(s) - Len(p) + 1, Len(s)) = p

TrimSuffix(s, p) == IF HasSuffix(s, p) THEN SubSeq(s, 1, Len(s) - Len(p)) ELSE s

\* The sequences over S of length at most n.
SeqUpTo(S, n) == UNION {[1..k -> S] : k \in 0..n}

\* The sequences over S without repetition.
NoDupSeqs(S) == {q \in SeqUpTo(S, Cardinality(S)) :
                    \A a, b \in DOMAIN q : a # b => q[a] # q[b]}

\* A map with one more entry (Go: m[k] = v).
MapSet(f, k, v) == [x \in DOMAIN f \cup {k} |-> IF x = k THEN v ELSE f[x]]

\* A map without one key (Go: delete(m, k)).
MapDelete(f, k) == [x \in DOMAIN f \ {k} |-> f[x]]

EmptyMap == [x \in {} |-> 0]

----------------------------------------------------------------------------
(* The data the engine works on (kin-openapi's openapi3.T and the config   *)
(* package), with the defaults of Go's zero values.                        *)

\* A reference string "#/components/<kind>/<name>" (kind "definitions" for
\* the legacy "#/definitions/<name>"); NoRef is the empty string.
MkRef(kind, name) == [kind |-> kind, name |-> name]

NoRef == MkRef("", <<>>)

\* openapi3.SchemaRef: its Ref and its Value (nil, or a schema whose nested
\* schemas are SchemaRef objects of the document, named by their index in
\* the document's `nodes`).  `body` stands for the schema's own content.
MkSchemaRef(ref, value) == [ref |-> ref, value |-> value]

MkSchema(body, kids) == [body |-> body, kids |-> kids]

\* openapi3.ParameterRef with a Value.
MkParam(name, in, description) ==
    [ref |-> NoRef,
     value |-> <<[name |-> name, in |-> in, description |-> description,
                  schema |-> <<>>, content |-> <<>>]>>]

\* openapi3.ParameterRef that is a reference; `value` is what the loader
\* resolved it to (<<>> when it did not).
MkParamRef(ref, value) == [ref |-> ref, value |-> value]

\* openapi3.ResponseRef, RequestBodyRef, HeaderRef, CallbackRef.
MkResponseRef(ref, content, headers) ==
    [ref |-> ref, value |-> <<[content |-> content, headers |-> headers]>>]

MkRequestBodyRef(ref, content) == [ref |-> ref, value |-> <<[content |-> content]>>]

MkHeaderRef(ref, schema) == [ref |-> ref, value |-> <<[schema |-> schema]>>]

MkCallbackRef(ref) == [ref |-> ref, value |-> <<EmptyMap>>]

\* openapi3.Operation: tags, parameters, request body, responses, callbacks
\* and security requirements; `id` stands for the rest of its content.
MkOp(id, tags) ==
    [id |-> id, tags |-> tags, parameters |-> <<>>, requestBody |-> <<>>,
     responses |-> EmptyMap, callbacks |-> EmptyMap, security |-> <<>>]

\* openapi3.PathItem: the operations that are not nil, by method, and the
\* path-level parameters.
MkPathItem(ops, params) == [ops |-> ops, parameters |-> params]

\* openapi3.Components with all nine maps empty.
EmptyComponents ==
    [schemas |-> EmptyMap, responses |-> EmptyMap, parameters |-> EmptyMap,
     securitySchemes |-> EmptyMap, requestBodies |-> EmptyMap, headers |-> EmptyMap,
     examples |-> EmptyMap, links |-> EmptyMap, callbacks |-> EmptyMap]

\* openapi3.T as the loader returns it.
MkDoc(paths, components) ==
    [paths |-> paths, components |-> components, nodes |-> <<>>, tags |-> <<>>,
     description |-> <<>>, security |-> <<>>]

\* The environment without GITHUB_TOKEN.
EmptyEnv == [GITHUB_TOKEN |-> ""]

\* config.InputConfig; `inputFile` is a local path or a URL, `doc` is the
\* document the input file holds and `loads` tells whether loadSpec can
\* read (or fetch) and parse it.
MkInput(doc) ==
    [inputFile |-> <<"spec.json">>,
     doc |-> doc, loads |-> TRUE, dispute |-> <<>>, pathModification |-> <<>>,
     operationSelection |-> <<>>, includeExtraParameters |-> <<>>,
     excludeParameters |-> <<>>, description |-> <<>>]

\* config.Config without its inputs, nothing configured.
EmptyCfg ==
    [basePath |-> <<>>, info |-> <<>>, servers |-> <<>>, securitySchemes |-> EmptyMap,
     security |-> <<>>, tagOrder |-> <<>>, pathsOrder |-> <<>>]

\* openapi3.Info
MkInfo(title, version, description) ==
    [title |-> title, version |-> version, description |-> description,
     termsOfService |-> "", contact |-> <<>>, license |-> <<>>]

\* The composite as Merge initialises it.
EmptyMaster ==
    [paths |-> EmptyMap, components |-> EmptyComponents, tags |-> <<>>,
     info |-> MkInfo("Merged API", "1.0.0", <<>>), servers |-> <<>>, security |-> <<>>]

----------------------------------------------------------------------------
(* HTTP methods and operations (utils.go).                                 *)

Methods == {"GET", "POST", "PUT", "DELETE", "PATCH", "HEAD", "OPTIONS", "TRACE"}

\* strings.ToUpper on the method strings of the model.
ToUpper(s) ==
    CASE s = "get"  -> "GET"
      [] s = "post" -> "POST"
      [] OTHER      -> s

\* strings.EqualFold
EqualFold(a, b) == ToUpper(a) = ToUpper(b)

\* getOperationsMap: the method -> operation map of a path item.  A nil
\* operation is a method outside DOMAIN pathItem.ops.
getOperationsMap(pathItem) ==
    [m \in Methods |-> IF m \in DOMAIN pathItem.ops THEN <<pathItem.ops[m]>> ELSE <<>>]

\* removeOperation: sets the field of the method to nil.
removeOperation(pathItem, method) ==
    IF ToUpper(method) \in Methods
    THEN [pathItem EXCEPT !.ops = MapDelete(pathItem.ops, ToUpper(method))]
    ELSE pathItem

\* isPathItemEmpty: all eight operation fields are nil.
isPathItemEmpty(pathItem) ==
    /\ "GET" \notin DOMAIN pathItem.ops
    /\ "POST" \notin DOMAIN pathItem.ops
    /\ "PUT" \notin DOMAIN pathItem.ops
    /\ "DELETE" \notin DOMAIN pathItem.ops
    /\ "PATCH" \notin DOMAIN pathItem.ops
    /\ "HEAD" \notin DOMAIN pathItem.ops
    /\ "OPTIONS" \notin DOMAIN pathItem.ops
    /\ "TRACE" \notin DOMAIN pathItem.ops

----------------------------------------------------------------------------
(* Glob matching of path filters (utils.go).                               *)

\* glob.Compile fails on a pattern with an unterminated character class.
RECURSIVE globCompiles(_)
globCompiles(pattern) ==
    IF pattern = <<>> THEN TRUE
    ELSE IF Head(pattern) = "["
         THEN \E k \in 2..Len(pattern) : pattern[k] = "]"
         ELSE globCompiles(Tail(pattern))

\* The compiled glob's Match, for patterns made of literals, '?' and '*'
\* (no separators are configured, so '*' also runs over '/').
RECURSIVE globMatch(_, _)
globMatch(pattern, path) ==
    IF pattern = <<>> THEN path = <<>>
    ELSE IF Head(pattern) = "*"
         THEN \/ globMatch(Tail(pattern), path)
              \/ (path # <<>> /\ globMatch(pattern, Tail(path)))
    ELSE IF Head(pattern) = "?"
         THEN path # <<>> /\ globMatch(Tail(pattern), Tail(path))
    ELSE /\ path # <<>>
         /\ Head(path) = Head(pattern)
         /\ globMatch(Tail(pattern), Tail(path))

\* A compiled glob's Match when '/' is given as a separator: '*' runs over
\* the characters of one path segment only.
RECURSIVE globMatchSeparated(_, _)
globMatchSeparated(pattern, path) ==
    IF pattern = <<>> THEN path = <<>>
    ELSE IF Head(pattern) = "*"
         THEN \/ globMatchSeparated(Tail(pattern), path)
              \/ (path # <<>> /\ Head(path) # "/" /\ globMatchSeparated(pattern, Tail(path)))
    ELSE IF Head(pattern) = "?"
         THEN path # <<>> /\ globMatchSeparated(Tail(pattern), Tail(path))
    ELSE /\ path # <<>>
         /\ Head(path) = Head(pattern)
         /\ globMatchSeparated(Tail(pattern), Tail(path))

\* As matchGlob, but the glob is compiled with '/' as a separator.
matchGlobSeparated(pattern, path) ==
    IF pattern = path THEN TRUE
    ELSE IF ~globCompiles(pattern) THEN pattern = path
    ELSE globMatchSeparated(pattern, path)

\* matchGlob
matchGlob(pattern, path) ==
    IF pattern = path THEN TRUE
    ELSE IF ~globCompiles(pattern) THEN pattern = path
    ELSE globMatch(pattern, path)

\* matchPathFilter
matchPathFilter(path, method, filter) ==
    IF filter.method # "" /\ ~EqualFold(method, filter.method)
    THEN FALSE
    ELSE matchGlob(filter.path, path)

----------------------------------------------------------------------------
(* Operation Filter (merger.go).                                           *)

\* The mutant: the excludePaths check is skipped when an includePaths rule
\* matched.
shouldIncludeOperationInclWins(path, method, op, sel) ==
    LET tagIncluded  == \E a \in DOMAIN op.tags : \E b \in DOMAIN sel.includeTags :
                            op.tags[a] = sel.includeTags[b]
        tagExcluded  == \E a \in DOMAIN op.tags : \E b \in DOMAIN sel.excludeTags :
                            op.tags[a] = sel.excludeTags[b]
        pathIncluded == \E k \in DOMAIN sel.includePaths :
                            matchPathFilter(path, method, sel.includePaths[k])
        pathExcluded == \E k \in DOMAIN sel.excludePaths :
                            matchPathFilter(path, method, sel.excludePaths[k])
    IN  IF Len(sel.includeTags) > 0 /\ ~tagIncluded THEN FALSE
        ELSE IF Len(sel.excludeTags) > 0 /\ tagExcluded THEN FALSE
        ELSE IF Len(sel.includePaths) > 0 /\ ~pathIncluded THEN FALSE
        ELSE IF Len(sel.includePaths) > 0 THEN TRUE
        ELSE IF Len(sel.excludePaths) > 0 /\ pathExcluded THEN FALSE
        ELSE TRUE

\* shouldIncludeOperation: the four checks in the code's order, each
\* returning false as soon as it fails.
shouldIncludeOperation(path, method, op, sel) ==
    LET hasMatchingTag == \E a \in DOMAIN op.tags : \E b \in DOMAIN sel.includeTags :
                              op.tags[a] = sel.includeTags[b]
        hasExcludedTag == \E a \in DOMAIN op.tags : \E b \in DOMAIN sel.excludeTags :
                              op.tags[a] = sel.excludeTags[b]
        matched        == \E k \in DOMAIN sel.includePaths :
                              matchPathFilter(path, method, sel.includePaths[k])
        excluded       == \E k \in DOMAIN sel.excludePaths :
                              matchPathFilter(path, method, sel.excludePaths[k])
    IN  IF Len(sel.includeTags) > 0 /\ ~hasMatchingTag THEN FALSE
        ELSE IF Len(sel.excludeTags) > 0 /\ hasExcludedTag THEN FALSE
        ELSE IF Len(sel.includePaths) > 0 /\ ~matched THEN FALSE
        ELSE IF Len(sel.excludePaths) > 0 /\ excluded THEN FALSE
        ELSE TRUE

\* The order in which the model walks the operations map (the result does
\* not depend on it: each step touches its own method only).
MethodOrder == <<"GET", "POST", "PUT", "DELETE", "PATCH", "HEAD", "OPTIONS", "TRACE">>

\* The inner loop of filterOperations over the operations of one path item:
\* every non-nil operation that should not be included is removed.
RECURSIVE filterPathItem(_, _, _, _)
filterPathItem(path, pathItem, sel, methods) ==
    IF methods = <<>> THEN pathItem
    ELSE LET method == Head(methods)
             op     == getOperationsMap(pathItem)[method]
             kept   == IF op # <<>> /\ ~shouldIncludeOperation(path, method, op[1], sel)
                       THEN removeOperation(pathItem, method)
                       ELSE pathItem
         IN  filterPathItem(path, kept, sel, Tail(methods))

\* The mutant: the emptiness of a path item is judged before its operations
\* are removed.
filterOperationsEarlyEmptyCheck(sp, input) ==
    IF input.operationSelection = <<>> THEN sp
    ELSE LET sel == input.operationSelection[1]
             pathsToRemove == {p \in DOMAIN sp.paths : isPathItemEmpty(sp.paths[p])}
         IN  [sp EXCEPT !.paths =
                [p \in DOMAIN sp.paths \ pathsToRemove |->
                    filterPathItem(p, sp.paths[p], sel, MethodOrder)]]

\* filterOperations
filterOperations(sp, input) ==
    IF input.operationSelection = <<>> THEN sp
    ELSE LET sel == input.operationSelection[1]
             filtered == [p \in DOMAIN sp.paths |-> filterPathItem(p, sp.paths[p], sel, MethodOrder)]
             pathsToRemove == {p \in DOMAIN filtered : isPathItemEmpty(filtered[p])}
         IN  [sp EXCEPT !.paths = [p \in DOMAIN filtered \ pathsToRemove |-> filtered[p]]]

----------------------------------------------------------------------------
(* Path Rewriter (merger.go).                                              *)

\* The mutant: the leading "/" is not ensured.
rewritePathNoSlash(path, mod) ==
    LET stripped == IF mod.stripStart # <<>> /\ HasPrefix(path, mod.stripStart)
                    THEN TrimPrefix(path, mod.stripStart)
                    ELSE path
    IN  IF mod.prepend # <<>> THEN mod.prepend \o stripped ELSE stripped

\* The body of modifyPaths' loop: the new key of one path.
rewritePath(path, mod) ==
    LET stripped  == IF mod.stripStart # <<>> /\ HasPrefix(path, mod.stripStart)
                     THEN TrimPrefix(path, mod.stripStart)
                     ELSE path
        prepended == IF mod.prepend # <<>> THEN mod.prepend \o stripped ELSE stripped
    IN  IF ~HasPrefix(prepended, <<"/">>) THEN <<"/">> \o prepended ELSE prepended

\* modifyPaths' loop, walking the path map in `order`: newPaths.Set
\* overwrites an entry already set under the same new key.
RECURSIVE modifyPathsLoop(_, _, _, _)
modifyPathsLoop(newPaths, paths, mod, order) ==
    IF order = <<>> THEN newPaths
    ELSE modifyPathsLoop(MapSet(newPaths, rewritePath(Head(order), mod), paths[Head(order)]),
                         paths, mod, Tail(order))

\* modifyPaths; `order` is the order in which Go walks spec.Paths.Map().
modifyPaths(sp, input, order) ==
    IF input.pathModification = <<>> THEN sp
    ELSE [sp EXCEPT !.paths = modifyPathsLoop(EmptyMap, sp.paths, input.pathModification[1], order)]

----------------------------------------------------------------------------
(* Parameter Injector/Remover (merger.go, config.go).                      *)

\* ParameterConfig.ToOpenAPI3Parameter: the parameter injected for one
\* configured entry; its schema is a new SchemaRef (node `n`) holding the
\* configured schema's type, "string" when no schema is configured.
ToOpenAPI3Parameter(paramCfg, n) ==
    [ref |-> NoRef,
     value |-> <<[name |-> paramCfg.name, in |-> paramCfg.in,
                  description |-> paramCfg.description,
                  schema |-> <<n>>, content |-> <<>>]>>]

ToOpenAPI3ParameterSchema(paramCfg) ==
    MkSchemaRef(NoRef, <<MkSchema(IF paramCfg.schema # <<>> THEN paramCfg.schema[1]
                                  ELSE "string", <<>>)>>)

\* The injection loop over the configured parameters for one operation;
\* the state is the operation's parameter list and the document's nodes.
RECURSIVE injectParameters(_, _, _)
injectParameters(params, nodes, extra) ==
    IF extra = <<>> THEN [params |-> params, nodes |-> nodes]
    ELSE LET paramCfg == Head(extra)
             exists   == \E k \in DOMAIN params :
                            /\ params[k].value # <<>>
                            /\ params[k].value[1].name = paramCfg.name
                            /\ params[k].value[1].in = paramCfg.in
         IN  IF exists THEN injectParameters(params, nodes, Tail(extra))
             ELSE injectParameters(
                    Append(params, ToOpenAPI3Parameter(paramCfg, Len(nodes) + 1)),
                    Append(nodes, ToOpenAPI3ParameterSchema(paramCfg)),
                    Tail(extra))

\* The removal loop: a parameter without a Value is kept; one with a Value
\* is dropped when a filter has its name and either no location or its own.
RECURSIVE removeParameters(_, _)
removeParameters(params, filters) ==
    IF params = <<>> THEN <<>>
    ELSE LET paramRef == Head(params)
             excluded == /\ paramRef.value # <<>>
                         /\ \E k \in DOMAIN filters :
                               /\ filters[k].name = paramRef.value[1].name
                               /\ filters[k].in = "" \/ filters[k].in = paramRef.value[1].in
             rest     == removeParameters(Tail(params), filters)
         IN  IF excluded THEN rest ELSE <<paramRef>> \o rest

\* As modifyOperationParameters, but the filters are applied before the
\* configured parameters are injected.
modifyOperationParametersRemoveFirst(op, nodes, input) ==
    LET kept     == IF Len(input.excludeParameters) > 0
                    THEN removeParameters(op.parameters, input.excludeParameters)
                    ELSE op.parameters
        injected == IF Len(input.includeExtraParameters) > 0
                    THEN injectParameters(kept, nodes, input.includeExtraParameters)
                    ELSE [params |-> kept, nodes |-> nodes]
    IN  [op |-> [op EXCEPT !.parameters = injected.params], nodes |-> injected.nodes]

\* The body of modifyParameters for one operation.
modifyOperationParameters(op, nodes, input) ==
    LET injected == IF Len(input.includeExtraParameters) > 0
                    THEN injectParameters(op.parameters, nodes, input.includeExtraParameters)
                    ELSE [params |-> op.parameters, nodes |-> nodes]
        kept     == IF Len(input.excludeParameters) > 0
                    THEN removeParameters(injected.params, input.excludeParameters)
                    ELSE injected.params
    IN  [op |-> [op EXCEPT !.parameters = kept], nodes |-> injected.nodes]

\* The operations of a document in a fixed order, as <<path, method>>.
RECURSIVE SetToSeq(_)
SetToSeq(S) ==
    IF S = {} THEN <<>>
    ELSE LET x == CHOOSE y \in S : TRUE IN <<x>> \o SetToSeq(S \ {x})

\* modifyParameters' loops over the path items and their operations.
RECURSIVE modifyParametersLoop(_, _, _)
modifyParametersLoop(sp, input, todo) ==
    IF todo = <<>> THEN sp
    ELSE LET p == Head(todo)[1]
             m == Head(todo)[2]
             r == modifyOperationParameters(sp.paths[p].ops[m], sp.nodes, input)
         IN  modifyParametersLoop(
                [sp EXCEPT !.paths[p].ops[m] = r.op, !.nodes = r.nodes], input, Tail(todo))

\* modifyParameters
modifyParameters(sp, input) ==
    modifyParametersLoop(sp, input,
        SetToSeq({pm \in (DOMAIN sp.paths) \X Methods : pm[2] \in DOMAIN sp.paths[pm[1]].ops}))

----------------------------------------------------------------------------
(* Reference rewriting (refs.go).                                          *)

\* The lookup every update*RefRefs function makes on the Ref it holds.
renamedRef(ref, renames) ==
    IF ref # NoRef /\ ref \in DOMAIN renames THEN renames[ref] ELSE ref

\* The frames the recursion of updateSchemaRefRefs may stack before the Go
\* runtime ends the process with a stack overflow.
MaxStackDepth == 5

\* updateSchemaRefRefs on node n: the Ref is looked up, then the nested
\* schemas of the Value are visited (items, properties, additionalProperties,
\* allOf, oneOf, anyOf, not: the node's `kids`).  The state is the document's
\* nodes and whether the stack has overflowed.
RECURSIVE updateSchemaRefRefs(_, _, _, _)
RECURSIVE updateSchemaRefsList(_, _, _, _)
updateSchemaRefRefs(st, n, renames, depth) ==
    IF st.overflow THEN st
    ELSE IF depth > MaxStackDepth THEN [st EXCEPT !.overflow = TRUE]
    ELSE LET st1 == [st EXCEPT !.nodes[n].ref = renamedRef(st.nodes[n].ref, renames)]
         IN  IF st.nodes[n].value # <<>>
             THEN updateSchemaRefsList(st1, st.nodes[n].value[1].kids, renames, depth + 1)
             ELSE st1

updateSchemaRefsList(st, list, renames, depth) ==
    IF list = <<>> THEN st
    ELSE updateSchemaRefsList(updateSchemaRefRefs(st, Head(list), renames, depth),
                              Tail(list), renames, depth)

\* A sequence of sequences, concatenated.
RECURSIVE Flatten(_)
Flatten(ss) == IF ss = <<>> THEN <<>> ELSE Head(ss) \o Flatten(Tail(ss))

\* The values of a map, in a fixed order of its keys.
MapValues(f) == LET ks == SetToSeq(DOMAIN f) IN [k \in DOMAIN ks |-> f[ks[k]]]

\* The SchemaRefs each update*RefRefs function hands to updateSchemaRefRefs,
\* in the order of its calls.  A parameter's or header's `content` is not
\* among them.
schemaRefsOfParameter(paramRef) ==
    IF paramRef.value # <<>> THEN paramRef.value[1].schema ELSE <<>>

schemaRefsOfHeader(headerRef) ==
    IF headerRef.value # <<>> THEN headerRef.value[1].schema ELSE <<>>

schemaRefsOfRequestBody(bodyRef) ==
    IF bodyRef.value # <<>> THEN bodyRef.value[1].content ELSE <<>>

schemaRefsOfResponse(respRef) ==
    IF respRef.value = <<>> THEN <<>>
    ELSE respRef.value[1].content
         \o Flatten([k \in DOMAIN MapValues(respRef.value[1].headers) |->
                        schemaRefsOfHeader(MapValues(respRef.value[1].headers)[k])])

schemaRefsOfOperation(op) ==
    Flatten([k \in DOMAIN op.parameters |-> schemaRefsOfParameter(op.parameters[k])])
    \o (IF op.requestBody # <<>> THEN schemaRefsOfRequestBody(op.requestBody[1]) ELSE <<>>)
    \o Flatten([k \in DOMAIN MapValues(op.responses) |->
                  schemaRefsOfResponse(MapValues(op.responses)[k])])

schemaRefsOfPathItem(pathItem) ==
    Flatten([k \in DOMAIN MethodOrder |->
                IF MethodOrder[k] \in DOMAIN pathItem.ops
                THEN schemaRefsOfOperation(pathItem.ops[MethodOrder[k]])
                ELSE <<>>])
    \o Flatten([k \in DOMAIN pathItem.parameters |->
                  schemaRefsOfParameter(pathItem.parameters[k])])

schemaRefsOfComponents(c) ==
    MapValues(c.schemas)
    \o Flatten([k \in DOMAIN MapValues(c.parameters) |->
                  schemaRefsOfParameter(MapValues(c.parameters)[k])])
    \o Flatten([k \in DOMAIN MapValues(c.responses) |->
                  schemaRefsOfResponse(MapValues(c.responses)[k])])
    \o Flatten([k \in DOMAIN MapValues(c.requestBodies) |->
                  schemaRefsOfRequestBody(MapValues(c.requestBodies)[k])])
    \o Flatten([k \in DOMAIN MapValues(c.headers) |->
                  schemaRefsOfHeader(MapValues(c.headers)[k])])

\* The Ref fields other than SchemaRef's: each update*RefRefs function looks
\* up the Ref of the object it is given.
updateParameterRef(paramRef, renames) ==
    [paramRef EXCEPT !.ref = renamedRef(paramRef.ref, renames)]

updateHeaderRef(headerRef, renames) ==
    [headerRef EXCEPT !.ref = renamedRef(headerRef.ref, renames)]

updateRequestBodyRef(bodyRef, renames) ==
    [bodyRef EXCEPT !.ref = renamedRef(bodyRef.ref, renames)]

updateCallbackRef(callbackRef, renames) ==
    [callbackRef EXCEPT !.ref = renamedRef(callbackRef.ref, renames)]

updateResponseRef(respRef, renames) ==
    [ref   |-> renamedRef(respRef.ref, renames),
     value |-> IF respRef.value = <<>> THEN <<>>
               ELSE <<[respRef.value[1] EXCEPT !.headers =
                        [k \in DOMAIN respRef.value[1].headers |->
                            updateHeaderRef(respRef.value[1].headers[k], renames)]]>>]

\* updateOperationRefs, for the Refs held outside SchemaRefs.  The
\* operation's security requirements are not visited.
updateOperationRefs(op, renames) ==
    [op EXCEPT
        !.parameters  = [k \in DOMAIN op.parameters |->
                            updateParameterRef(op.parameters[k], renames)],
        !.requestBody = IF op.requestBody = <<>> THEN <<>>
                        ELSE <<updateRequestBodyRef(op.requestBody[1], renames)>>,
        !.responses   = [c \in DOMAIN op.responses |->
                            updateResponseRef(op.responses[c], renames)],
        !.callbacks   = [c \in DOMAIN op.callbacks |->
                            updateCallbackRef(op.callbacks[c], renames)]]

\* updatePathItemRefs, for the Refs held outside SchemaRefs.
updatePathItemRefs(pathItem, renames) ==
    [ops        |-> [m \in DOMAIN pathItem.ops |-> updateOperationRefs(pathItem.ops[m], renames)],
     parameters |-> [k \in DOMAIN pathItem.parameters |->
                        updateParameterRef(pathItem.parameters[k], renames)]]

\* updateComponentsRefs, for the Refs held outside SchemaRefs.
updateComponentsRefs(c, renames) ==
    [c EXCEPT
        !.parameters    = [n \in DOMAIN c.parameters |-> updateParameterRef(c.parameters[n], renames)],
        !.responses     = [n \in DOMAIN c.responses |-> updateResponseRef(c.responses[n], renames)],
        !.requestBodies = [n \in DOMAIN c.requestBodies |->
                              updateRequestBodyRef(c.requestBodies[n], renames)],
        !.headers       = [n \in DOMAIN c.headers |-> updateHeaderRef(c.headers[n], renames)],
        !.callbacks     = [n \in DOMAIN c.callbacks |-> updateCallbackRef(c.callbacks[n], renames)]]

\* updateRefs: nothing when the rename map is empty; else the path items,
\* then the components.  The result tells whether the recursion over the
\* SchemaRefs overflowed the stack.
updateRefs(sp, renames) ==
    IF DOMAIN renames = {} THEN [spec |-> sp, overflow |-> FALSE]
    ELSE LET roots == Flatten([k \in DOMAIN MapValues(sp.paths) |->
                                  schemaRefsOfPathItem(MapValues(sp.paths)[k])])
                      \o schemaRefsOfComponents(sp.components)
             st    == updateSchemaRefsList([nodes |-> sp.nodes, overflow |-> FALSE],
                                           roots, renames, 1)
         IN  [spec |-> [sp EXCEPT
                          !.paths = [p \in DOMAIN sp.paths |->
                                        updatePathItemRefs(sp.paths[p], renames)],
                          !.components = updateComponentsRefs(sp.components, renames),
                          !.nodes = st.nodes],
              overflow |-> st.overflow]

----------------------------------------------------------------------------
(* Conflict Resolver (merger.go).                                          *)

\* One "Rename ..." block of applyDisputePrefix: the map with every key
\* prefixed.
prefixKeys(f, prefix) ==
    [n \in {prefix \o k : k \in DOMAIN f} |-> f[TrimPrefix(n, prefix)]]

\* The entries one block adds to the rename map.
renamesOfKind(f, kind, prefix) ==
    [r \in {MkRef(kind, k) : k \in DOMAIN f} |-> MkRef(kind, prefix \o r.name)]

\* The legacy "#/definitions/<name>" entries added for the schemas.
renamesOfDefinitions(f, prefix) ==
    [r \in {MkRef("definitions", k) : k \in DOMAIN f} |-> MkRef("schemas", prefix \o r.name)]

\* Two maps with disjoint keys, joined.
MapJoin(f, g) ==
    [x \in DOMAIN f \cup DOMAIN g |-> IF x \in DOMAIN f THEN f[x] ELSE g[x]]

\* The rename map applyDisputePrefix builds.
buildRenames(c, prefix) ==
    MapJoin(renamesOfKind(c.schemas, "schemas", prefix),
    MapJoin(renamesOfDefinitions(c.schemas, prefix),
    MapJoin(renamesOfKind(c.responses, "responses", prefix),
    MapJoin(renamesOfKind(c.parameters, "parameters", prefix),
    MapJoin(renamesOfKind(c.securitySchemes, "securitySchemes", prefix),
            renamesOfKind(c.requestBodies, "requestBodies", prefix))))))

\* The kinds applyDisputePrefix renames: schemas, responses, parameters,
\* security schemes and request bodies.
renameComponents(c, prefix) ==
    [c EXCEPT
        !.schemas         = prefixKeys(c.schemas, prefix),
        !.responses       = prefixKeys(c.responses, prefix),
        !.parameters      = prefixKeys(c.parameters, prefix),
        !.securitySchemes = prefixKeys(c.securitySchemes, prefix),
        !.requestBodies   = prefixKeys(c.requestBodies, prefix)]

\* applyDisputePrefix
applyDisputePrefix(sp, prefix) ==
    updateRefs([sp EXCEPT !.components = renameComponents(sp.components, prefix)],
               buildRenames(sp.components, prefix))

----------------------------------------------------------------------------
(* Serialisation.  The composite keeps the objects of the documents folded *)
(* into it; nothing changes them afterwards and the engine reads them only *)
(* through json.Marshal (schemasEqual, createSortedSpec), so the composite *)
(* holds every SchemaRef in its serialised form.                           *)

\* json.Marshal of a SchemaRef: a reference is written as its "$ref" alone,
\* anything else as its schema with the nested schemas written the same way.
RECURSIVE marshalSchemaRef(_, _)
marshalSchemaRef(nodes, n) ==
    IF nodes[n].ref # NoRef \/ nodes[n].value = <<>>
    THEN [ref |-> nodes[n].ref, body |-> "", kids |-> <<>>]
    ELSE [ref  |-> NoRef,
          body |-> nodes[n].value[1].body,
          kids |-> [k \in DOMAIN nodes[n].value[1].kids |->
                        marshalSchemaRef(nodes, nodes[n].value[1].kids[k])]]

marshalSchemaOpt(nodes, s) == IF s = <<>> THEN <<>> ELSE <<marshalSchemaRef(nodes, s[1])>>

marshalSchemaList(nodes, l) == [k \in DOMAIN l |-> marshalSchemaRef(nodes, l[k])]

marshalParameter(nodes, paramRef) ==
    IF paramRef.value = <<>> THEN paramRef
    ELSE [paramRef EXCEPT !.value =
            <<[paramRef.value[1] EXCEPT
                 !.schema = marshalSchemaOpt(nodes, paramRef.value[1].schema),
                 !.content = marshalSchemaOpt(nodes, paramRef.value[1].content)]>>]

marshalHeader(nodes, headerRef) ==
    IF headerRef.value = <<>> THEN headerRef
    ELSE [headerRef EXCEPT !.value =
            <<[schema |-> marshalSchemaOpt(nodes, headerRef.value[1].schema)]>>]

marshalResponse(nodes, respRef) ==
    IF respRef.value = <<>> THEN respRef
    ELSE [respRef EXCEPT !.value =
            <<[content |-> marshalSchemaList(nodes, respRef.value[1].content),
               headers |-> [k \in DOMAIN respRef.value[1].headers |->
                               marshalHeader(nodes, respRef.value[1].headers[k])]]>>]

marshalRequestBody(nodes, bodyRef) ==
    IF bodyRef.value = <<>> THEN bodyRef
    ELSE [bodyRef EXCEPT !.value =
            <<[content |-> marshalSchemaList(nodes, bodyRef.value[1].content)]>>]

marshalOperation(nodes, op) ==
    [op EXCEPT
        !.parameters  = [k \in DOMAIN op.parameters |-> marshalParameter(nodes, op.parameters[k])],
        !.requestBody = IF op.requestBody = <<>> THEN <<>>
                        ELSE <<marshalRequestBody(nodes, op.requestBody[1])>>,
        !.responses   = [c \in DOMAIN op.responses |-> marshalResponse(nodes, op.responses[c])]]

marshalPathItem(nodes, pathItem) ==
    [ops        |-> [m \in DOMAIN pathItem.ops |-> marshalOperation(nodes, pathItem.ops[m])],
     parameters |-> [k \in DOMAIN pathItem.parameters |->
                        marshalParameter(nodes, pathItem.parameters[k])]]

marshalComponents(nodes, c) ==
    [c EXCEPT
        !.schemas       = [n \in DOMAIN c.schemas |-> marshalSchemaRef(nodes, c.schemas[n])],
        !.responses     = [n \in DOMAIN c.responses |-> marshalResponse(nodes, c.responses[n])],
        !.parameters    = [n \in DOMAIN c.parameters |-> marshalParameter(nodes, c.parameters[n])],
        !.requestBodies = [n \in DOMAIN c.requestBodies |->
                              marshalRequestBody(nodes, c.requestBodies[n])],
        !.headers       = [n \in DOMAIN c.headers |-> marshalHeader(nodes, c.headers[n])]]

\* A document with every SchemaRef serialised: what mergeSpec's reads of the
\* document amount to.
marshalSpec(sp) ==
    [paths       |-> [p \in DOMAIN sp.paths |-> marshalPathItem(sp.nodes, sp.paths[p])],
     components  |-> marshalComponents(sp.nodes, sp.components),
     tags        |-> sp.tags,
     description |-> sp.description,
     security    |-> sp.security]

----------------------------------------------------------------------------
(* Composite Merger (merger.go, utils.go).                                 *)

\* input.Dispute != nil && input.Dispute.Prefix != ""
hasDisputePrefix(input) == input.dispute # <<>> /\ input.dispute[1] # <<>>

\* schemasEqual, on serialised schema refs.
schemasEqual(a, b) ==
    IF a.ref # NoRef /\ b.ref # NoRef
    THEN a.ref = b.ref
    ELSE a = b

\* The parameter loop of mergePathItem: a source parameter is appended
\* unless a destination parameter with a Value has its name and location.
RECURSIVE mergeParameters(_, _)
mergeParameters(destParams, srcParams) ==
    IF srcParams = <<>> THEN destParams
    ELSE LET param  == Head(srcParams)
             exists == \E k \in DOMAIN destParams :
                          /\ destParams[k].value # <<>>
                          /\ param.value # <<>>
                          /\ destParams[k].value[1].name = param.value[1].name
                          /\ destParams[k].value[1].in = param.value[1].in
         IN  mergeParameters(IF exists THEN destParams ELSE Append(destParams, param),
                             Tail(srcParams))

\* The mutant: the source operation replaces the destination's.
mergePathItemLastWins(dest, src) ==
    [ops        |-> [m \in DOMAIN dest.ops \cup DOMAIN src.ops |->
                        IF m \in DOMAIN src.ops THEN src.ops[m] ELSE dest.ops[m]],
     parameters |-> mergeParameters(dest.parameters, src.parameters)]

\* mergePathItem: per method, the source operation is taken when the source
\* has one and the destination has none; then the parameters are merged.
mergePathItem(dest, src) ==
    [ops        |-> [m \in DOMAIN dest.ops \cup DOMAIN src.ops |->
                        IF m \in DOMAIN src.ops /\ m \notin DOMAIN dest.ops
                        THEN src.ops[m] ELSE dest.ops[m]],
     parameters |-> mergeParameters(dest.parameters, src.parameters)]

\* The mutant: a path the composite lacks is not adopted.
mergePathsNoAdopt(masterPaths, specPaths) ==
    [p \in DOMAIN masterPaths |->
        IF p \in DOMAIN specPaths THEN mergePathItem(masterPaths[p], specPaths[p])
        ELSE masterPaths[p]]

\* The paths loop of mergeSpec.  The keys of the document are distinct, so
\* the order of the loop does not matter.
mergePaths(masterPaths, specPaths) ==
    [p \in DOMAIN masterPaths \cup DOMAIN specPaths |->
        IF p \notin DOMAIN specPaths THEN masterPaths[p]
        ELSE IF p \in DOMAIN masterPaths THEN mergePathItem(masterPaths[p], specPaths[p])
        ELSE specPaths[p]]

\* The mutant: schemas are first-writer-wins like the other kinds.
mergeSchemasFirstWins(schemas, incoming, order, disputed) ==
    [schemas |-> [n \in DOMAIN schemas \cup DOMAIN incoming |->
                    IF n \in DOMAIN schemas THEN schemas[n] ELSE incoming[n]],
     err     |-> <<>>]

\* The schemas loop of mergeComponents, walking the map in `order`: the
\* first name that is in the composite with an unequal schema, the input
\* having no dispute prefix, ends the loop with an error naming it.
RECURSIVE mergeSchemas(_, _, _, _)
mergeSchemas(schemas, incoming, order, disputed) ==
    IF order = <<>> THEN [schemas |-> schemas, err |-> <<>>]
    ELSE LET name == Head(order)
         IN  IF name \in DOMAIN schemas
             THEN IF ~schemasEqual(schemas[name], incoming[name]) /\ ~disputed
                  THEN [schemas |-> schemas, err |-> <<name>>]
                  ELSE mergeSchemas(schemas, incoming, Tail(order), disputed)
             ELSE mergeSchemas(MapSet(schemas, name, incoming[name]), incoming,
                               Tail(order), disputed)

\* The mutant: the document's value replaces the composite's.
mergeIfAbsentLastWins(mine, theirs) ==
    [k \in DOMAIN mine \cup DOMAIN theirs |-> IF k \in DOMAIN theirs THEN theirs[k] ELSE mine[k]]

\* The loops of mergeComponents over the other kinds: a name is added only
\* when the composite does not have it.
mergeIfAbsent(mine, theirs) ==
    [k \in DOMAIN mine \cup DOMAIN theirs |-> IF k \in DOMAIN mine THEN mine[k] ELSE theirs[k]]

\* mergeComponents; `order` is the order in which Go walks components.Schemas.
mergeComponents(mc, components, input, order) ==
    LET s == mergeSchemas(mc.schemas, components.schemas, order, hasDisputePrefix(input))
    IN  IF s.err # <<>>
        THEN [components |-> [mc EXCEPT !.schemas = s.schemas], err |-> s.err]
        ELSE [components |->
                [schemas         |-> s.schemas,
                 responses       |-> mergeIfAbsent(mc.responses, components.responses),
                 parameters      |-> mergeIfAbsent(mc.parameters, components.parameters),
                 securitySchemes |-> mergeIfAbsent(mc.securitySchemes, components.securitySchemes),
                 requestBodies   |-> mergeIfAbsent(mc.requestBodies, components.requestBodies),
                 examples        |-> mergeIfAbsent(mc.examples, components.examples),
                 headers         |-> mergeIfAbsent(mc.headers, components.headers),
                 links           |-> mergeIfAbsent(mc.links, components.links),
                 callbacks       |-> mergeIfAbsent(mc.callbacks, components.callbacks)],
              err |-> <<>>]

\* hasTag
hasTag(tags, name) == \E k \in DOMAIN tags : tags[k].name = name

\* The mutant: every tag of the document is appended.
mergeTagsAppendAll(masterTags, specTags) == masterTags \o specTags

\* The tags loop of mergeSpec.
RECURSIVE mergeTags(_, _)
mergeTags(masterTags, specTags) ==
    IF specTags = <<>> THEN masterTags
    ELSE mergeTags(IF hasTag(masterTags, Head(specTags).name) THEN masterTags
                   ELSE Append(masterTags, Head(specTags)),
                   Tail(specTags))

\* mergeSpec: paths, then components (returning their error), then tags.
mergeSpec(m, sp, input, order) ==
    LET withPaths == [m EXCEPT !.paths = mergePaths(m.paths, sp.paths)]
        c         == mergeComponents(m.components, sp.components, input, order)
    IN  IF c.err # <<>>
        THEN [master |-> [withPaths EXCEPT !.components = c.components], err |-> c.err]
        ELSE [master |-> [withPaths EXCEPT !.components = c.components,
                                           !.tags = mergeTags(m.tags, sp.tags)],
              err |-> <<>>]

----------------------------------------------------------------------------
(* Post-Processor and output (merger.go, config.go).                       *)

\* strings.Repeat
RECURSIVE Repeat(_, _)
Repeat(c, n) == IF n <= 0 THEN <<>> ELSE <<c>> \o Repeat(c, n - 1)

\* The heading level formatDescription falls back to.
DefaultHeadingLevel == 2

\* As formatDescription, but a level outside 1..6 is used as configured.
formatDescriptionAnyLevel(desc, descCfg) ==
    IF desc = <<>> THEN <<>>
    ELSE IF descCfg.title # <<>> /\ descCfg.title[1].value # <<>>
         THEN Repeat("#", descCfg.title[1].headingLevel) \o <<" ">> \o descCfg.title[1].value
              \o <<"\n\n">> \o desc
         ELSE desc

\* formatDescription
formatDescription(desc, descCfg) ==
    IF desc = <<>> THEN <<>>
    ELSE IF descCfg.title # <<>> /\ descCfg.title[1].value # <<>>
         THEN LET configured == descCfg.title[1].headingLevel
                  level == IF configured < 1 \/ configured > 6
                           THEN DefaultHeadingLevel ELSE configured
              IN  Repeat("#", level) \o <<" ">> \o descCfg.title[1].value
                  \o <<"\n\n">> \o desc
         ELSE desc

\* strings.Join
RECURSIVE Join(_, _)
Join(parts, sep) ==
    IF parts = <<>> THEN <<>>
    ELSE IF Len(parts) = 1 THEN parts[1]
    ELSE parts[1] \o sep \o Join(Tail(parts), sep)

\* applyBasePath
applyBasePath(m, basePath) ==
    LET slashed    == IF ~HasPrefix(basePath, <<"/">>) THEN <<"/">> \o basePath ELSE basePath
        normalized == TrimSuffix(slashed, <<"/">>)
    IN  [m EXCEPT !.paths =
            [np \in {normalized \o p : p \in DOMAIN m.paths} |->
                m.paths[TrimPrefix(np, normalized)]]]

\* As overrideInfo, but the configured Info block replaces the composite's
\* as a whole.
overrideInfoReplaceAll(info, c) == c

\* The info override of applyOverrides: a configured field replaces the
\* composite's when it is not empty (not nil for contact and license).
overrideInfo(info, c) ==
    [title          |-> IF c.title # "" THEN c.title ELSE info.title,
     version        |-> IF c.version # "" THEN c.version ELSE info.version,
     description    |-> IF c.description # <<>> THEN c.description ELSE info.description,
     termsOfService |-> IF c.termsOfService # "" THEN c.termsOfService ELSE info.termsOfService,
     contact        |-> IF c.contact # <<>> THEN c.contact ELSE info.contact,
     license        |-> IF c.license # <<>> THEN c.license ELSE info.license]

\* As appendDescriptions, but the separator is written before the first
\* appended description whether or not a description precedes it.
appendDescriptionsLeadingSeparator(description, descriptions) ==
    IF Len(descriptions) > 0
    THEN description \o <<"\n\n">> \o Join(descriptions, <<"\n\n">>)
    ELSE description

\* The description append of applyOverrides.
appendDescriptions(description, descriptions) ==
    IF Len(descriptions) > 0
    THEN (IF description # <<>> THEN description \o <<"\n\n">> ELSE description)
         \o Join(descriptions, <<"\n\n">>)
    ELSE description

\* applyOverrides
applyOverrides(m, c, descriptions) ==
    LET based     == IF c.basePath # <<>> THEN applyBasePath(m, c.basePath) ELSE m
        info      == IF c.info # <<>> THEN overrideInfo(based.info, c.info[1]) ELSE based.info
        described == [info EXCEPT !.description = appendDescriptions(@, descriptions)]
    IN  [based EXCEPT
            !.info = described,
            !.servers = IF Len(c.servers) > 0 THEN c.servers ELSE @,
            !.components.securitySchemes =
                [n \in DOMAIN @ \cup DOMAIN c.securitySchemes |->
                    IF n \in DOMAIN c.securitySchemes THEN c.securitySchemes[n] ELSE @[n]],
            !.security = IF Len(c.security) > 0 THEN c.security ELSE @]

\* The first loop of sortTags: the tags named in tagOrder, each removed
\* from tagMap when taken.  `left` is the set of names still in tagMap.
RECURSIVE sortTagsPriority(_, _, _)
sortTagsPriority(tagMap, left, tagOrder) ==
    IF tagOrder = <<>> THEN [sorted |-> <<>>, left |-> left]
    ELSE LET tagName == Head(tagOrder)
         IN  IF tagName \in left
             THEN LET r == sortTagsPriority(tagMap, left \ {tagName}, Tail(tagOrder))
                  IN  [sorted |-> <<tagMap[tagName]>> \o r.sorted, left |-> r.left]
             ELSE sortTagsPriority(tagMap, left, Tail(tagOrder))

\* The mutant: a tag taken for tagOrder is not removed from tagMap.
sortTagsNoDelete(tags, tagOrder) ==
    IF Len(tags) = 0 THEN tags
    ELSE LET names == {tags[k].name : k \in DOMAIN tags}
             taken == SelectSeq(tagOrder, LAMBDA n : n \in names)
         IN  [k \in DOMAIN taken |->
                 tags[CHOOSE j \in DOMAIN tags : tags[j].name = taken[k]]] \o tags

\* sortTags
sortTags(tags, tagOrder) ==
    IF Len(tags) = 0 THEN tags
    ELSE LET names  == {tags[k].name : k \in DOMAIN tags}
             tagMap == [n \in names |->
                          tags[CHOOSE k \in DOMAIN tags :
                                  /\ tags[k].name = n
                                  /\ \A j \in DOMAIN tags : tags[j].name = n => j <= k]]
             first  == sortTagsPriority(tagMap, names, tagOrder)
         IN  first.sorted \o SelectSeq(tags, LAMBDA t : t.name \in first.left)

\* sortOutput
sortOutput(m, c) ==
    IF Len(c.tagOrder) > 0 THEN [m EXCEPT !.tags = sortTags(m.tags, c.tagOrder)] ELSE m

\* The characters of the model in the order of their byte values.
ByteOrder == <<"*", "/", "?", "A", "B", "P", "U", "V", "[", "]", "a", "b", "c", "u", "v">>

ByteOf(c) == CHOOSE k \in DOMAIN ByteOrder : ByteOrder[k] = c

\* Go's < on strings: byte-wise lexicographic.
RECURSIVE StringLess(_, _)
StringLess(a, b) ==
    IF b = <<>> THEN FALSE
    ELSE IF a = <<>> THEN TRUE
    ELSE IF Head(a) = Head(b) THEN StringLess(Tail(a), Tail(b))
    ELSE ByteOf(Head(a)) < ByteOf(Head(b))

\* A set of strings as the ascending sequence (the nested loops of
\* sortPaths; the key order of json.Marshal and yaml.Marshal of a map).
RECURSIVE SortStrings(_)
SortStrings(S) ==
    IF S = {} THEN <<>>
    ELSE LET least == CHOOSE x \in S : \A y \in S \ {x} : StringLess(x, y)
         IN  <<least>> \o SortStrings(S \ {least})

\* The list sortPaths computes: for each priority path the keys equal to
\* it, then the other keys ascending.
sortedPathList(keys, pathsOrder) ==
    SelectSeq(pathsOrder, LAMBDA pp : pp \in keys)
    \o SortStrings({k \in keys : \A j \in DOMAIN pathsOrder : pathsOrder[j] # k})

\* sortPaths: the list is poured into a new Go map, which keeps no order.
sortPaths(paths, pathsOrder) ==
    [k \in Range(sortedPathList(DOMAIN paths, pathsOrder)) |-> paths[k]]

\* createSortedSpec and the marshalling of its result: the document as the
\* output file holds it, the path keys in the order the encoder writes the
\* keys of a map.
createSortedSpec(m, c) ==
    LET ordered == sortPaths(m.paths, c.pathsOrder)
    IN  [pathOrder |-> SortStrings(DOMAIN ordered), paths |-> ordered,
         components |-> m.components, tags |-> m.tags, info |-> m.info,
         servers |-> m.servers, security |-> m.security]

----------------------------------------------------------------------------
(* Merger.Merge: the loop over the inputs, one stage per step, then the    *)
(* post-processing and the output.                                         *)

\* config.IsURL
IsURL(path) == HasPrefix(path, <<"http://">>) \/ HasPrefix(path, <<"https://">>)

\* strings.Contains, on strings taken apart.
Contains(str, sub) ==
    \E k \in 0..(Len(str) - Len(sub)) : SubSeq(str, k + 1, k + Len(sub)) = sub

\* isGitHubURL
isGitHubURL(url) ==
    \/ Contains(url, <<"github.com">>)
    \/ Contains(url, <<"githubusercontent.com">>)
    \/ Contains(url, <<"github.io">>)

\* The place of the first '/' of a string taken apart, 0 when it has none.
FirstSlash(str) ==
    IF \E k \in DOMAIN str : str[k] = "/"
    THEN CHOOSE k \in DOMAIN str : str[k] = "/" /\ \A j \in 1..(k - 1) : str[j] # "/"
    ELSE 0

\* convertGitHubURL: https://github.com/<owner>/<repo>/blob/<rest> and the
\* same with tree become https://raw.githubusercontent.com/<owner>/<repo>/<rest>.
convertGitHubURL(url) ==
    IF ~HasPrefix(url, <<"https://", "github.com", "/">>) THEN url
    ELSE LET afterHost  == SubSeq(url, 4, Len(url))
             ownerEnd   == FirstSlash(afterHost)
             afterOwner == SubSeq(afterHost, ownerEnd + 1, Len(afterHost))
             repoEnd    == FirstSlash(afterOwner)
             afterRepo  == SubSeq(afterOwner, repoEnd + 1, Len(afterOwner))
         IN  IF /\ ownerEnd > 1
                /\ repoEnd > 1
                /\ Len(afterRepo) > 2
                /\ afterRepo[1] \in {"blob", "tree"}
                /\ afterRepo[2] = "/"
             THEN <<"https://", "raw", ".", "githubusercontent.com", "/">>
                  \o SubSeq(afterHost, 1, ownerEnd)
                  \o SubSeq(afterOwner, 1, repoEnd)
                  \o SubSeq(afterRepo, 3, Len(afterRepo))
             ELSE url

\* fetchFromURL: the request it sends, its URL and its Authorization
\* header (<<>> when the header is not set).
fetchFromURL(url, e) ==
    LET converted == convertGitHubURL(url)
    IN  [url |-> converted,
         authorization |-> IF isGitHubURL(converted) /\ e.GITHUB_TOKEN # ""
                           THEN <<[scheme |-> "token", credentials |-> e.GITHUB_TOKEN]>>
                           ELSE <<>>]

\* The orders in which Go may walk a map with the keys S.
Orders(S) == {q \in [1..Cardinality(S) -> S] : \A a, b \in DOMAIN q : a # b => q[a] # q[b]}

\* The mutant: the failed input is skipped and the loop goes on.
AfterErrorSkipsInput == "describe"

\* What Merge does after an input's stage failed: it returns the error.
AfterError == "done"

\* loadSpec(input.InputFile): the document of the file, or the error that
\* ends Merge.
LoadSpec ==
    /\ pc = "load"
    /\ IF inputs[i].loads
       THEN /\ spec' = inputs[i].doc
            /\ orig' = inputs[i].doc
            /\ prev' = inputs[i].doc
            /\ pc' = "filter"
            /\ err' = err
       ELSE /\ err' = <<[kind |-> "load", input |-> i, name |-> <<>>]>>
            /\ pc' = AfterError
            /\ UNCHANGED <<spec, orig, prev>>
    /\ requests' = IF IsURL(inputs[i].inputFile)
                    THEN Append(requests, fetchFromURL(inputs[i].inputFile, env))
                    ELSE requests
    /\ log' = Append(log, <<"load", i>>)
    /\ UNCHANGED <<env, inputs, cfg, i, master, mergedDescriptions, output, folded>>

\* spec = m.filterOperations(spec, &input)
FilterOperations ==
    /\ pc = "filter"
    /\ spec' = filterOperations(spec, inputs[i])
    /\ prev' = spec
    /\ pc' = "paths"
    /\ log' = Append(log, <<"filter", i>>)
    /\ UNCHANGED <<env, requests, inputs, cfg, i, orig, master, err, mergedDescriptions, output, folded>>

\* spec = m.modifyPaths(spec, &input)
ModifyPaths ==
    /\ pc = "paths"
    /\ \E order \in Orders(DOMAIN spec.paths) :
          spec' = modifyPaths(spec, inputs[i], order)
    /\ prev' = spec
    /\ pc' = "params"
    /\ log' = Append(log, <<"paths", i>>)
    /\ UNCHANGED <<env, requests, inputs, cfg, i, orig, master, err, mergedDescriptions, output, folded>>

\* spec = m.modifyParameters(spec, &input)
ModifyParameters ==
    /\ pc = "params"
    /\ spec' = modifyParameters(spec, inputs[i])
    /\ prev' = spec
    /\ pc' = "dispute"
    /\ log' = Append(log, <<"params", i>>)
    /\ UNCHANGED <<env, requests, inputs, cfg, i, orig, master, err, mergedDescriptions, output, folded>>

\* if input.Dispute != nil && input.Dispute.Prefix != "" { spec =
\* m.applyDisputePrefix(spec, prefix) }.  A stack overflow ends the process.
ApplyDisputePrefix ==
    /\ pc = "dispute"
    /\ IF hasDisputePrefix(inputs[i])
       THEN LET r == applyDisputePrefix(spec, inputs[i].dispute[1])
            IN  /\ spec' = r.spec
                /\ pc' = IF r.overflow THEN "crashed" ELSE "merge"
       ELSE /\ spec' = spec
            /\ pc' = "merge"
    /\ prev' = spec
    /\ log' = Append(log, <<"dispute", i>>)
    /\ UNCHANGED <<env, requests, inputs, cfg, i, orig, master, err, mergedDescriptions, output, folded>>

\* m.mergeSpec(spec, &input): on an error Merge returns it.
MergeSpec ==
    /\ pc = "merge"
    /\ \E order \in Orders(DOMAIN spec.components.schemas) :
          LET r == mergeSpec(master, marshalSpec(spec), inputs[i], order)
          IN  /\ master' = r.master
              /\ IF r.err # <<>>
                 THEN /\ err' = <<[kind |-> "collision", input |-> i, name |-> r.err[1]]>>
                      /\ pc' = AfterError
                 ELSE /\ err' = err
                      /\ pc' = "describe"
    /\ folded' = Append(folded, marshalSpec(spec))
    /\ log' = Append(log, <<"merge", i>>)
    /\ UNCHANGED <<env, requests, inputs, cfg, i, spec, orig, prev, mergedDescriptions, output>>

\* As AppendDescription, but the loop ends after the input at hand: the
\* post-processing follows whether or not inputs are left.
AppendDescriptionEndsLoop ==
    /\ pc = "describe"
    /\ LET descCfg == inputs[i].description
           desc    == IF descCfg # <<>> /\ descCfg[1].append
                      THEN formatDescription(spec.description, descCfg[1])
                      ELSE <<>>
       IN  mergedDescriptions' = IF desc # <<>> THEN Append(mergedDescriptions, desc)
                                 ELSE mergedDescriptions
    /\ i' = i /\ pc' = "overrides"
    /\ log' = Append(log, <<"describe", i>>)
    /\ UNCHANGED <<env, requests, inputs, cfg, spec, orig, prev, master, err, output, folded>>

\* The description appending at the end of the loop body, and the step to
\* the next input or to the post-processing.
AppendDescription ==
    /\ pc = "describe"
    /\ LET descCfg == inputs[i].description
           desc    == IF descCfg # <<>> /\ descCfg[1].append
                      THEN formatDescription(spec.description, descCfg[1])
                      ELSE <<>>
       IN  mergedDescriptions' = IF desc # <<>> THEN Append(mergedDescriptions, desc)
                                 ELSE mergedDescriptions
    /\ IF i < Len(inputs)
       THEN i' = i + 1 /\ pc' = "load"
       ELSE i' = i /\ pc' = "overrides"
    /\ log' = Append(log, <<"describe", i>>)
    /\ UNCHANGED <<env, requests, inputs, cfg, spec, orig, prev, master, err, output, folded>>

\* m.applyOverrides(mergedDescriptions)
ApplyOverrides ==
    /\ pc = "overrides"
    /\ master' = applyOverrides(master, cfg, mergedDescriptions)
    /\ pc' = "sort"
    /\ log' = Append(log, <<"overrides", 0>>)
    /\ UNCHANGED <<env, requests, inputs, cfg, i, spec, orig, prev, err, mergedDescriptions, output, folded>>

\* m.sortOutput()
SortOutput ==
    /\ pc = "sort"
    /\ master' = sortOutput(master, cfg)
    /\ pc' = "write"
    /\ log' = Append(log, <<"sort", 0>>)
    /\ UNCHANGED <<env, requests, inputs, cfg, i, spec, orig, prev, err, mergedDescriptions, output, folded>>

\* m.writeOutput(): the file is written, or the directory or the file
\* cannot be written and the error is returned.
WriteOutput ==
    /\ pc = "write"
    /\ \E ok \in BOOLEAN :
          IF ok
          THEN /\ output' = <<createSortedSpec(master, cfg)>>
               /\ err' = err
          ELSE /\ output' = output
               /\ err' = <<[kind |-> "write", input |-> 0, name |-> <<>>]>>
    /\ pc' = "done"
    /\ log' = Append(log, <<"write", 0>>)
    /\ UNCHANGED <<env, requests, inputs, cfg, i, spec, orig, prev, master, mergedDescriptions, folded>>

Next ==
    \/ LoadSpec
    \/ FilterOperations
    \/ ModifyPaths
    \/ ModifyParameters
    \/ ApplyDisputePrefix
    \/ MergeSpec
    \/ AppendDescription
    \/ ApplyOverrides
    \/ SortOutput
    \/ WriteOutput

\* The state in which Merge enters its loop, for a given configuration.
MergeStartsIn(ins, c, e) ==
    /\ inputs = ins
    /\ cfg = c
    /\ env = e
    /\ requests = <<>>
    /\ i = 1
    /\ pc = "load"
    /\ spec = MkDoc(EmptyMap, EmptyComponents)
    /\ orig = MkDoc(EmptyMap, EmptyComponents)
    /\ prev = MkDoc(EmptyMap, EmptyComponents)
    /\ master = EmptyMaster
    /\ err = <<>>
    /\ mergedDescriptions = <<>>
    /\ output = <<>>
    /\ log = <<>>
    /\ folded = <<>>

\* The same, in an environment without GITHUB_TOKEN.
MergeStarts(ins, c) == MergeStartsIn(ins, c, EmptyEnv)

----------------------------------------------------------------------------
(* Spec: Merge on every list of at most MaxInputs inputs of the pool       *)
(* below: documents with one path and up to two schemas, with or without a *)
(* dispute prefix, and files that cannot be loaded.                        *)

MaxInputs == 2

SchemaNames == {<<"U">>, <<"P", "U">>}

Prefixes == {<<>>, <<"P">>}

\* The schema sets of the pool: name -> content.
SchemaSets ==
    {EmptyMap}
    \cup {[n \in {k} |-> b] : k \in SchemaNames, b \in {"A", "B"}}
    \cup {[n \in SchemaNames |-> b] : b \in {"A", "B"}}

\* A document whose components are the schemas `bodies` (name -> content),
\* each an object schema without nested schemas.
MkSchemaDoc(paths, bodies) ==
    LET names == SetToSeq(DOMAIN bodies)
    IN  [MkDoc(paths,
               [EmptyComponents EXCEPT !.schemas =
                   [n \in DOMAIN bodies |-> CHOOSE k \in DOMAIN names : names[k] = n]])
         EXCEPT !.nodes = [k \in DOMAIN names |->
                              MkSchemaRef(NoRef, <<MkSchema(bodies[names[k]], <<>>)>>)]]

PoolPaths ==
    {[p \in {pa} |-> MkPathItem([m \in {"GET"} |-> MkOp("get", <<>>)], <<>>)] :
        pa \in {<<"/", "a">>, <<"/", "b">>}}

InputPool ==
    {[MkInput(MkSchemaDoc(EmptyMap, EmptyMap)) EXCEPT !.loads = FALSE]}
    \cup {[MkInput(MkSchemaDoc(ps, bodies)) EXCEPT !.dispute = <<pre>>] :
            ps \in PoolPaths, bodies \in SchemaSets, pre \in Prefixes}

Init ==
    \E n \in 1..MaxInputs : \E ins \in [1..n -> InputPool] : MergeStarts(ins, EmptyCfg)

Spec == Init /\ [][Next]_vars

----------------------------------------------------------------------------
(* Properties of Merge under Spec.                                         *)

\* The schema names of document `doc` that the composite `m` holds with a
\* different serialised content.
CollidingSchemas(m, doc) ==
    {n \in DOMAIN doc.components.schemas \cap DOMAIN m.components.schemas :
        doc.components.schemas[n] # m.components.schemas[n]}

\* The document about to be folded, as mergeSpec reads it.
Incoming == marshalSpec(spec)

\* Post-processing has begun.
PostProcessed == \E k \in DOMAIN log : log[k][1] = "overrides"

\* C1, as stated: when a document folded without a dispute prefix defines a
\* schema name the composite holds with different content, the fold fails
\* with a collision error naming that schema, for every such name; when all
\* same-named schemas are equal the fold succeeds and the composite keeps one
\* schema under each of these names.
C1_ErrorNamesEveryCollidingSchema ==
    [][(pc = "merge" /\ ~hasDisputePrefix(inputs[i])) =>
         /\ \A n \in CollidingSchemas(master, Incoming) :
               /\ err' # <<>>
               /\ err'[1].kind = "collision"
               /\ err'[1].name = n
         /\ CollidingSchemas(master, Incoming) = {} =>
               /\ err' = <<>>
               /\ \A n \in DOMAIN Incoming.components.schemas :
                     /\ n \in DOMAIN master'.components.schemas
                     /\ master'.components.schemas[n] = Incoming.components.schemas[n]
      ]_vars

\* C1, amended: when a document folded without a dispute prefix defines
\* schema names the composite holds with different content, the fold fails,
\* Merge ends, and the collision error names one of these schemas; when all
\* same-named schemas are equal the fold succeeds and the composite holds one
\* schema under each name of the document, the one it held before if it held
\* one.
C1_SchemaCollision ==
    [][(pc = "merge" /\ ~hasDisputePrefix(inputs[i])) =>
         IF CollidingSchemas(master, Incoming) # {}
         THEN /\ err' # <<>>
              /\ err'[1].kind = "collision"
              /\ err'[1].input = i
              /\ err'[1].name \in CollidingSchemas(master, Incoming)
              /\ pc' = "done"
         ELSE /\ err' = <<>>
              /\ pc' = "describe"
              /\ \A n \in DOMAIN Incoming.components.schemas :
                    /\ n \in DOMAIN master'.components.schemas
                    /\ master'.components.schemas[n] = Incoming.components.schemas[n]
              /\ \A n \in DOMAIN master.components.schemas :
                    master'.components.schemas[n] = master.components.schemas[n]
      ]_vars

\* A run where the second document, without a prefix, redefines two schemas
\* of the first with other content, and Merge has ended with the collision
\* error naming one of them.
C1_Witness ==
    /\ Len(folded) = 2
    /\ ~hasDisputePrefix(inputs[2])
    /\ Cardinality(CollidingSchemas(folded[1], folded[2])) = 2
    /\ pc = "done"
    /\ err # <<>>
    /\ err[1].kind = "collision"
    /\ err[1].name = <<"P", "U">>

\* C2, as stated: a document folded with a dispute prefix has no schema that
\* meets a same-named schema with different content in the composite, and
\* after a successful Merge every schema of every folded document is in the
\* output under its final name with the content the document gave it.
C2_DisputedSchemasAllKept ==
    /\ (pc = "merge" /\ hasDisputePrefix(inputs[i])) =>
          CollidingSchemas(master, Incoming) = {}
    /\ output # <<>> =>
          \A k \in DOMAIN folded : \A n \in DOMAIN folded[k].components.schemas :
              /\ n \in DOMAIN output[1].components.schemas
              /\ output[1].components.schemas[n] = folded[k].components.schemas[n]

\* C5: the output file is written only when every input was loaded and
\* folded and no error was raised; after a load failure or a schema collision
\* Merge has ended, nothing of a later input and no post-processing or
\* writing step has run, and no output exists.
C5_NoPartialOutput ==
    /\ output # <<>> =>
          /\ err = <<>>
          /\ \A k \in DOMAIN inputs :
                /\ inputs[k].loads
                /\ \E j \in DOMAIN log : log[j] = <<"merge", k>>
    /\ (err # <<>> /\ err[1].kind \in {"load", "collision"}) =>
          /\ pc = "done"
          /\ output = <<>>
          /\ log[Len(log)][2] = err[1].input
          /\ log[Len(log)][1] = (IF err[1].kind = "load" THEN "load" ELSE "merge")
          /\ \A j \in DOMAIN log :
                /\ log[j][1] \notin {"overrides", "sort", "write"}
                /\ log[j][2] <= err[1].input

\* A run that folded its first input and ended at the second, which could
\* not be loaded, without output.
C5_Witness ==
    /\ Len(inputs) = 2
    /\ err # <<>>
    /\ err[1].kind = "load"
    /\ err[1].input = 2
    /\ Len(folded) = 1
    /\ pc = "done"
    /\ output = <<>>

\* The documents folded so far have no dispute prefix, pairwise disjoint
\* schema names and pairwise disjoint paths.
DisjointSoFar ==
    /\ \A k \in DOMAIN folded : ~hasDisputePrefix(inputs[k])
    /\ \A j, k \in DOMAIN folded :
          j # k =>
             /\ DOMAIN folded[j].paths \cap DOMAIN folded[k].paths = {}
             /\ DOMAIN folded[j].components.schemas
                   \cap DOMAIN folded[k].components.schemas = {}

DocumentStages == <<"load", "filter", "paths", "params", "dispute", "merge">>

\* The post-processing steps, in the order Merge calls them.
FinalStages == <<"overrides", "sort", "write">>

\* The steps of the log that the stage order is about: those of the
\* description appending are left out.
StageLog == SelectSeq(log, LAMBDA e : e[1] # "describe")

\* The place of a stage in a sequence of stages, 0 when it is not there.
StagePlace(stages, s) ==
    IF \E k \in DOMAIN stages : stages[k] = s
    THEN CHOOSE k \in DOMAIN stages : stages[k] = s
    ELSE 0

\* C20: the steps Merge has taken are, input by input in the order of the
\* input list, load, operation filter, path rewrite, parameter
\* injection/removal, conflict resolution and fold, each once and none
\* before the one it follows; no input is loaded before the one ahead of
\* it was folded; overrides (with the base path), sort and write come
\* after the fold of the last input, in this order and at most once each,
\* and exactly once when Merge ends without an error.
C20_StageOrdering ==
    /\ \A a, b \in DOMAIN StageLog :
          a < b =>
             LET x == StageLog[a]
                 y == StageLog[b]
             IN  IF x[2] = 0
                 THEN /\ y[2] = 0
                      /\ StagePlace(FinalStages, x[1]) < StagePlace(FinalStages, y[1])
                 ELSE \/ y[2] = 0
                      \/ x[2] < y[2]
                      \/ /\ x[2] = y[2]
                         /\ StagePlace(DocumentStages, x[1]) < StagePlace(DocumentStages, y[1])
    /\ \A b \in DOMAIN StageLog :
          LET y     == StageLog[b]
              Before(s, k) == \E a \in 1..(b - 1) : StageLog[a] = <<s, k>>
          IN  IF y[2] = 0
              THEN /\ StagePlace(FinalStages, y[1]) # 0
                   /\ IF y[1] = "overrides"
                      THEN Before("merge", Len(inputs))
                      ELSE Before(FinalStages[StagePlace(FinalStages, y[1]) - 1], 0)
              ELSE /\ y[2] \in DOMAIN inputs
                   /\ StagePlace(DocumentStages, y[1]) # 0
                   /\ IF y[1] = "load"
                      THEN y[2] = 1 \/ Before("merge", y[2] - 1)
                      ELSE Before(DocumentStages[StagePlace(DocumentStages, y[1]) - 1], y[2])
    /\ (pc = "done" /\ err = <<>>) =>
          /\ Len(StageLog) = Len(DocumentStages) * Len(inputs) + Len(FinalStages)
          /\ StageLog[Len(StageLog)] = <<"write", 0>>
    /\ output # <<>> => (pc = "done" /\ err = <<>>)

\* Merge has ended without an error on two inputs and the output is
\* written: the second document was loaded right after the first one's
\* fold and description, and the last three steps are the post-processing.
C20_Witness ==
    /\ pc = "done"
    /\ err = <<>>
    /\ output # <<>>
    /\ Len(inputs) = 2
    /\ Len(log) = 17
    /\ log[6] = <<"merge", 1>>
    /\ log[8] = <<"load", 2>>
    /\ log[13] = <<"merge", 2>>
    /\ SubSeq(log, 15, 17) = <<<<"overrides", 0>>, <<"sort", 0>>, <<"write", 0>>>>

----------------------------------------------------------------------------
(* SpecFold: Merge on documents that contribute operations and path-level  *)
(* parameters to the same or to different paths.  What input k contributes *)
(* carries k, so that the composite shows whose entry it kept.  The loader *)
(* only warns about a document that is not valid, so a document may list a *)
(* parameter twice.                                                        *)

FoldPaths == {<<"/", "a">>, <<"/", "b">>}

FoldMethodSets == {{"GET"}, {"POST"}, {"GET", "POST"}}

\* The path-level parameter lists of input k.
FoldParameterLists(k) ==
    LET xq == MkParam(<<"x">>, "query", ToString(k))
        xh == MkParam(<<"x">>, "header", ToString(k))
        yq == MkParam(<<"y">>, "query", ToString(k))
        x2 == MkParam(<<"x">>, "query", ToString(k) \o "'")
    IN  {<<>>, <<xq>>, <<xh, yq>>, <<xq, x2>>}

FoldInputs(k) ==
    {MkInput(MkDoc([q \in {p} |-> MkPathItem([m \in ms |-> MkOp(ToString(k), <<>>)], params)],
                   EmptyComponents)) :
        p \in FoldPaths, ms \in FoldMethodSets, params \in FoldParameterLists(k)}

\* The input lists of length n: input k is one of FoldInputs(k).
RECURSIVE FoldInputLists(_)
FoldInputLists(n) ==
    IF n = 0 THEN {<<>>}
    ELSE {Append(ins, input) : ins \in FoldInputLists(n - 1), input \in FoldInputs(n)}

InitFold ==
    \E n \in 1..MaxInputs : \E ins \in FoldInputLists(n) : MergeStarts(ins, EmptyCfg)

SpecFold == InitFold /\ [][Next]_vars

\* The (name, location) of a path-level parameter.
ParamKey(param) == <<param.value[1].name, param.value[1].in>>

ParamKeys(params) == {ParamKey(params[k]) : k \in DOMAIN params}

C8_ParameterUnionDuplicateFree ==
    [][pc = "merge" =>
         \A p \in DOMAIN Incoming.paths \cap DOMAIN master.paths :
            LET old == master.paths[p].parameters
                new == master'.paths[p].parameters
            IN  /\ ParamKeys(new) = ParamKeys(old) \cup ParamKeys(Incoming.paths[p].parameters)
                /\ \A j, k \in DOMAIN new : ParamKey(new[j]) = ParamKey(new[k]) => j = k
                /\ Len(old) <= Len(new)
                /\ SubSeq(new, 1, Len(old)) = old
      ]_vars

----------------------------------------------------------------------------
(* SpecDispute: Merge on one input with a dispute prefix whose document    *)
(* has components of every kind and references to them.                    *)

DisputePrefixes == {<<"P">>, <<"V">>}

\* The SchemaRef objects of the document:
\*   1  components.schemas.U
\*   2  the media-type schema of the operation's response, "$ref" to U
\*   3  components.schemas.X, with the property 4
\*   4  the property of X, "$ref" to U
\*   5  the media-type schema of the operation's request body, "$ref" to X:
\*      the loader gives it the Schema object of X, so it has the property 4
\*   6  the schema of the parameter Q, "$ref" to U
\*   7  components.schemas.PU (when the document has it)
DisputeNodes ==
    <<MkSchemaRef(NoRef, <<MkSchema("A", <<>>)>>),
      MkSchemaRef(MkRef("schemas", <<"U">>), <<MkSchema("A", <<>>)>>),
      MkSchemaRef(NoRef, <<MkSchema("B", <<4>>)>>),
      MkSchemaRef(MkRef("schemas", <<"U">>), <<MkSchema("A", <<>>)>>),
      MkSchemaRef(MkRef("schemas", <<"X">>), <<MkSchema("B", <<4>>)>>),
      MkSchemaRef(MkRef("schemas", <<"U">>), <<MkSchema("A", <<>>)>>),
      MkSchemaRef(NoRef, <<MkSchema("C", <<>>)>>)>>

\* The parameter Q; its schema is under `schema`, or under `content` when
\* the parameter is described by a media type.
DisputeParameter(inContent) ==
    [ref |-> NoRef,
     value |-> <<[name |-> <<"q">>, in |-> "query", description |-> "",
                  schema  |-> IF inContent THEN <<>> ELSE <<6>>,
                  content |-> IF inContent THEN <<6>> ELSE <<>>]>>]

DisputeComponents(hasPU, inContent, hasHeader, hasLink, hasCallback) ==
    [schemas         |-> IF hasPU
                         THEN (<<"U">> :> 1) @@ (<<"X">> :> 3) @@ (<<"P", "U">> :> 7)
                         ELSE (<<"U">> :> 1) @@ (<<"X">> :> 3),
     responses       |-> (<<"R">> :> MkResponseRef(NoRef, <<>>, EmptyMap)),
     parameters      |-> (<<"Q">> :> DisputeParameter(inContent)),
     securitySchemes |-> (<<"S">> :> "bearer"),
     requestBodies   |-> (<<"B">> :> MkRequestBodyRef(NoRef, <<>>)),
     headers         |-> IF hasHeader THEN (<<"H">> :> MkHeaderRef(NoRef, <<>>)) ELSE EmptyMap,
     examples        |-> EmptyMap,
     links           |-> IF hasLink THEN (<<"L">> :> "link") ELSE EmptyMap,
     callbacks       |-> IF hasCallback THEN (<<"C">> :> MkCallbackRef(NoRef)) ELSE EmptyMap]

\* The operation: it refers to the parameter Q, has a request body with the
\* schema 5, the response "200" with the schema 2 and, when the document has
\* the header H, the header "h" referring to it; the response "400" refers
\* to R; the callback "cb" refers to C when the document has it.
DisputeOperation(inContent, hasHeader, hasCallback) ==
    [MkOp("get", <<>>) EXCEPT
        !.parameters  = <<MkParamRef(MkRef("parameters", <<"Q">>),
                                     DisputeParameter(inContent).value)>>,
        !.requestBody = <<MkRequestBodyRef(NoRef, <<5>>)>>,
        !.responses   =
            ("200" :> MkResponseRef(NoRef, <<2>>,
                         IF hasHeader
                         THEN ("h" :> MkHeaderRef(MkRef("headers", <<"H">>), <<>>))
                         ELSE EmptyMap))
            @@ ("400" :> MkResponseRef(MkRef("responses", <<"R">>), <<>>, EmptyMap)),
        !.callbacks   = IF hasCallback
                        THEN ("cb" :> MkCallbackRef(MkRef("callbacks", <<"C">>)))
                        ELSE EmptyMap]

DisputeDoc(hasPU, inContent, hasHeader, hasLink, hasCallback) ==
    [MkDoc((<<"/", "a">> :>
               MkPathItem(("GET" :> DisputeOperation(inContent, hasHeader, hasCallback)), <<>>)),
           DisputeComponents(hasPU, inContent, hasHeader, hasLink, hasCallback))
     EXCEPT !.nodes = DisputeNodes]

DisputeInputs ==
    {[MkInput(DisputeDoc(hasPU, inContent, hasHeader, hasLink, hasCallback))
         EXCEPT !.dispute = <<prefix>>] :
        hasPU \in BOOLEAN, inContent \in BOOLEAN, hasHeader \in BOOLEAN,
        hasLink \in BOOLEAN, hasCallback \in BOOLEAN, prefix \in DisputePrefixes}

InitDispute == \E input \in DisputeInputs : MergeStarts(<<input>>, EmptyCfg)

SpecDispute == InitDispute /\ [][Next]_vars

\* The kinds of components a reference string can name.
ComponentKinds ==
    {"schemas", "responses", "parameters", "securitySchemes", "requestBodies",
     "headers", "links", "callbacks"}

\* The reference strings of a document: those of its SchemaRefs and those of
\* its parameters, request bodies, responses, headers and callbacks.
RefsOfResponse(respRef) ==
    {respRef.ref}
    \cup (IF respRef.value = <<>> THEN {}
          ELSE {respRef.value[1].headers[h].ref : h \in DOMAIN respRef.value[1].headers})

RefsOfOperation(op) ==
    {op.parameters[k].ref : k \in DOMAIN op.parameters}
    \cup {op.requestBody[k].ref : k \in DOMAIN op.requestBody}
    \cup UNION {RefsOfResponse(op.responses[c]) : c \in DOMAIN op.responses}
    \cup {op.callbacks[c].ref : c \in DOMAIN op.callbacks}

RefsOfDocument(doc) ==
    ({doc.nodes[k].ref : k \in DOMAIN doc.nodes}
     \cup UNION {UNION {RefsOfOperation(doc.paths[p].ops[m]) : m \in DOMAIN doc.paths[p].ops} :
                    p \in DOMAIN doc.paths}
     \cup UNION {{doc.paths[p].parameters[k].ref : k \in DOMAIN doc.paths[p].parameters} :
                    p \in DOMAIN doc.paths}
     \cup {doc.components.parameters[n].ref : n \in DOMAIN doc.components.parameters}
     \cup UNION {RefsOfResponse(doc.components.responses[n]) :
                    n \in DOMAIN doc.components.responses}
     \cup {doc.components.requestBodies[n].ref : n \in DOMAIN doc.components.requestBodies}
     \cup {doc.components.headers[n].ref : n \in DOMAIN doc.components.headers}
     \cup {doc.components.callbacks[n].ref : n \in DOMAIN doc.components.callbacks})
    \ {NoRef}

\* Conflict resolution has just run on the input's document: `prev` is the
\* document before it, `spec` the document after it.
Resolved == pc = "merge" /\ hasDisputePrefix(inputs[i])

\* C3, as stated: after conflict resolution with prefix P no reference
\* string of the document names a component that existed before without the
\* prefix P, and every component a reference named before exists afterwards
\* under P followed by its old name.
C3_ReferenceClosure ==
    Resolved =>
        LET P == inputs[i].dispute[1]
        IN  /\ \A r \in RefsOfDocument(spec) :
                  r.kind \in ComponentKinds =>
                     ~(r.name \in DOMAIN prev.components[r.kind] /\ ~HasPrefix(r.name, P))
            /\ \A r \in RefsOfDocument(prev) :
                  (r.kind \in ComponentKinds /\ r.name \in DOMAIN prev.components[r.kind]) =>
                     (P \o r.name) \in DOMAIN spec.components[r.kind]

\* C4, as stated: after conflict resolution with prefix P the components of
\* each of the eight kinds are keyed by P followed by their old names, each
\* old component under its new key, and there are as many as before.
C4_EveryKindRenamed ==
    Resolved =>
        LET P == inputs[i].dispute[1]
        IN  \A kind \in ComponentKinds :
               /\ DOMAIN spec.components[kind] =
                     {P \o n : n \in DOMAIN prev.components[kind]}
               /\ Cardinality(DOMAIN spec.components[kind]) =
                     Cardinality(DOMAIN prev.components[kind])

----------------------------------------------------------------------------
(* SpecFilter: filterOperations applied to a document, and applied again   *)
(* to its own result, for every document and selection of the pools below. *)

FilterPaths == {<<"/", "a">>, <<"/", "b">>}

FilterTagLists == {<<>>, <<"Users">>, <<"Users", "Admin">>}

\* The operations of one path item: any subset of GET and POST, each with
\* one of the tag lists.
FilterOpMaps ==
    UNION {[ms -> {MkOp(1, t) : t \in FilterTagLists}] : ms \in SUBSET {"GET", "POST"}}

FilterDocs ==
    UNION {{MkDoc([p \in ps |-> MkPathItem(f[p], <<>>)], EmptyComponents) :
                f \in [ps -> FilterOpMaps]} : ps \in SUBSET FilterPaths}

FilterRules ==
    {[path |-> pt, method |-> md] :
        pt \in {<<"/", "a">>, <<"/", "*">>}, md \in {"", "post"}}

FilterRuleLists ==
    {<<>>} \cup {<<r>> : r \in FilterRules}
           \cup {<<[path |-> <<"/", "a">>, method |-> "post"],
                   [path |-> <<"/", "*">>, method |-> "GET"]>>}

FilterSelections ==
    {<<>>} \cup
    {<<[includeTags |-> it, excludeTags |-> et, includePaths |-> ip, excludePaths |-> ep]>> :
        it \in {<<>>, <<"Users">>}, et \in {<<>>, <<"Admin">>},
        ip \in FilterRuleLists, ep \in FilterRuleLists}

InitFilter ==
    /\ \E d \in FilterDocs, sel \in FilterSelections :
          /\ inputs = <<[MkInput(d) EXCEPT !.operationSelection = sel]>>
          /\ spec = d
          /\ orig = d
          /\ prev = d
    /\ cfg = EmptyCfg
    /\ env = EmptyEnv
    /\ requests = <<>>
    /\ i = 1
    /\ pc = "filtering"
    /\ master = EmptyMaster
    /\ err = <<>>
    /\ mergedDescriptions = <<>>
    /\ output = <<>>
    /\ log = <<>>
    /\ folded = <<>>

\* filterOperations(spec, &input), first application.
FilterOnce ==
    /\ pc = "filtering"
    /\ spec' = filterOperations(spec, inputs[i])
    /\ prev' = spec
    /\ pc' = "filtered"
    /\ UNCHANGED <<env, requests, inputs, cfg, i, orig, master, err, mergedDescriptions, output, log, folded>>

\* filterOperations applied to the document it returned.
FilterTwice ==
    /\ pc = "filtered"
    /\ spec' = filterOperations(spec, inputs[i])
    /\ prev' = spec
    /\ pc' = "refiltered"
    /\ UNCHANGED <<env, requests, inputs, cfg, i, orig, master, err, mergedDescriptions, output, log, folded>>

NextFilter == FilterOnce \/ FilterTwice

SpecFilter == InitFilter /\ [][NextFilter]_vars

\* The operations of a document, as <<path, method>> pairs.
OpsOf(d) == {pm \in (DOMAIN d.paths) \X Methods : pm[2] \in DOMAIN d.paths[pm[1]].ops}

\* A path filter rule matches a path and method: a rule with a method
\* matches that method only, whatever its case; one without matches all.
RuleMatches(rule, p, m) ==
    /\ rule.method = "" \/ ToUpper(rule.method) = ToUpper(m)
    /\ matchGlob(rule.path, p)

\* The selection in force: a missing operationSelection selects everything.
SelectionOf(input) ==
    IF input.operationSelection = <<>>
    THEN [includeTags |-> <<>>, excludeTags |-> <<>>, includePaths |-> <<>>,
          excludePaths |-> <<>>]
    ELSE input.operationSelection[1]

\* The decision C9 states: tag inclusion, no excluded tag, path
\* inclusion, no excluding path rule.
Selected(p, m, op, sel) ==
    /\ sel.includeTags = <<>> \/ Range(op.tags) \cap Range(sel.includeTags) # {}
    /\ Range(op.tags) \cap Range(sel.excludeTags) = {}
    /\ sel.includePaths = <<>> \/ \E r \in Range(sel.includePaths) : RuleMatches(r, p, m)
    /\ \A r \in Range(sel.excludePaths) : ~RuleMatches(r, p, m)

\* C9: after filterOperations, an operation of the document is still there
\* if and only if it has an included tag (or includeTags is empty), has no
\* excluded tag, matches an includePaths rule (or includePaths is empty) and
\* matches no excludePaths rule; the operations that stay are unchanged.
C9_FilterDecision ==
    pc = "filtered" =>
        /\ OpsOf(spec) \subseteq OpsOf(orig)
        /\ \A pm \in OpsOf(orig) :
              /\ pm \in OpsOf(spec) <=>
                    Selected(pm[1], pm[2], orig.paths[pm[1]].ops[pm[2]], SelectionOf(inputs[1]))
              /\ pm \in OpsOf(spec) =>
                    spec.paths[pm[1]].ops[pm[2]] = orig.paths[pm[1]].ops[pm[2]]

\* C9 witness: an operation matched by an includePaths rule and by an
\* excludePaths rule given in lower case was removed, while another
\* operation of the document survived.
C9_Witness ==
    /\ pc = "filtered"
    /\ inputs[1].operationSelection # <<>>
    /\ \E pm \in OpsOf(orig) \ OpsOf(spec) :
          LET sel == inputs[1].operationSelection[1]
          IN  /\ \E r \in Range(sel.includePaths) : RuleMatches(r, pm[1], pm[2])
              /\ \E r \in Range(sel.excludePaths) :
                    r.method = "post" /\ RuleMatches(r, pm[1], pm[2])
    /\ OpsOf(spec) # {}

\* C10: filtering the filtered document again with the same configuration
\* changes nothing.
C10_FilterIdempotent ==
    pc = "refiltered" => spec = prev

\* C10 witness: the first application removed an operation and a path, the
\* second application ran on what was left.
C10_Witness ==
    /\ pc = "refiltered"
    /\ OpsOf(spec) # {}
    /\ OpsOf(spec) # OpsOf(orig)
    /\ DOMAIN spec.paths # DOMAIN orig.paths

\* C11, as stated: after filterOperations, whatever operationSelection the
\* input has (none included), every path of the document has at least one
\* operation.
C11_NoEmptyPathItem ==
    pc \in {"filtered", "refiltered"} =>
        \A p \in DOMAIN spec.paths : DOMAIN spec.paths[p].ops # {}

----------------------------------------------------------------------------
(* SpecRewrite: Merge on one input whose document has one or two paths,    *)
(* with and without pathModification, under a configuration with and       *)
(* without basePath and pathsOrder.  The operation of a path carries the   *)
(* key the path had in the input file.                                     *)

RewriteKeys == {<<"/", "a">>, <<"/", "v">>, <<"/", "v", "/", "a">>, <<"a">>}

RewriteDocs ==
    {MkDoc([p \in ps |-> MkPathItem(("GET" :> MkOp(p, <<>>)), <<>>)], EmptyComponents) :
        ps \in {qs \in SUBSET RewriteKeys : Cardinality(qs) \in {1, 2}}}

RewriteMods ==
    {<<>>} \cup
    {<<[stripStart |-> st, prepend |-> pre]>> :
        st \in {<<>>, <<"/">>, <<"/", "v">>, <<"v">>},
        pre \in {<<>>, <<"/", "b">>, <<"b">>}}

RewriteBasePaths == {<<>>, <<"/", "v">>, <<"v", "/">>, <<"/">>, <<"/", "v", "/", "/">>}

RewritePathsOrders ==
    {<<>>, <<<<"/", "v">>>>, <<<<"/", "v">>, <<"/", "a">>, <<"/", "v">>>>,
     <<<<"/", "b">>, <<"/", "a">>>>}

InitRewrite ==
    \E doc \in RewriteDocs, mod \in RewriteMods, bp \in RewriteBasePaths,
       po \in RewritePathsOrders :
        MergeStarts(<<[MkInput(doc) EXCEPT !.pathModification = mod]>>,
                    [EmptyCfg EXCEPT !.basePath = bp, !.pathsOrder = po])

SpecRewrite == InitRewrite /\ [][Next]_vars

\* The key C12 states for a path: stripStart removed from the front when
\* the path begins with it, prepend put before, then a "/" when the result
\* does not begin with one.
StatedKey(p, mod) ==
    LET stripped == IF Len(mod.stripStart) <= Len(p)
                       /\ \A k \in 1..Len(mod.stripStart) : p[k] = mod.stripStart[k]
                    THEN [k \in 1..(Len(p) - Len(mod.stripStart)) |-> p[k + Len(mod.stripStart)]]
                    ELSE p
        joined   == mod.prepend \o stripped
    IN  IF joined # <<>> /\ joined[1] = "/" THEN joined ELSE <<"/">> \o joined

\* C12: with a pathModification, modifyPaths leaves exactly the stated keys,
\* each non-empty and beginning with "/", each carrying the PathItem of a
\* path it is the stated key of; stripping the whole path gives "/".
C12_PathRewriter ==
    [][(pc = "paths" /\ inputs[i].pathModification # <<>>) =>
         LET mod == inputs[i].pathModification[1]
         IN  /\ DOMAIN spec'.paths = {StatedKey(p, mod) : p \in DOMAIN spec.paths}
             /\ \A k \in DOMAIN spec'.paths :
                   /\ k # <<>>
                   /\ k[1] = "/"
                   /\ \E p \in DOMAIN spec.paths :
                         StatedKey(p, mod) = k /\ spec'.paths[k] = spec.paths[p]
             /\ \A p \in DOMAIN spec.paths :
                   (mod.stripStart = p /\ mod.prepend = <<>>) => <<"/">> \in DOMAIN spec'.paths
      ]_vars

\* stripStart "/v" took the whole path "/v", which became "/", and took the
\* front of "/v/a", which became "/a".
C12_Witness ==
    /\ pc = "params"
    /\ inputs[1].pathModification # <<>>
    /\ inputs[1].pathModification[1] = [stripStart |-> <<"/", "v">>, prepend |-> <<>>]
    /\ DOMAIN prev.paths = {<<"/", "v">>, <<"/", "v", "/", "a">>}
    /\ DOMAIN spec.paths = {<<"/">>, <<"/", "a">>}
    /\ spec.paths[<<"/">>].ops["GET"].id = <<"/", "v">>

\* The base path as C13 normalizes it: with a leading "/", without the
\* trailing "/".
StatedBasePath(bp) ==
    LET slashed == IF bp # <<>> /\ bp[1] = "/" THEN bp ELSE <<"/">> \o bp
    IN  IF slashed[Len(slashed)] = "/" THEN SubSeq(slashed, 1, Len(slashed) - 1) ELSE slashed

HasDoubleSlash(k) == \E j \in 1..(Len(k) - 1) : k[j] = "/" /\ k[j + 1] = "/"

\* C13, as stated: with a basePath configured, the post-processor replaces
\* every path key p of the composite by the normalized basePath followed by
\* p; the PathItems and their number are unchanged and no resulting key
\* contains "//".
C13_GlobalBasePath ==
    [][(pc = "overrides" /\ cfg.basePath # <<>>) =>
         /\ DOMAIN master'.paths = {StatedBasePath(cfg.basePath) \o p : p \in DOMAIN master.paths}
         /\ \A p \in DOMAIN master.paths :
               master'.paths[StatedBasePath(cfg.basePath) \o p] = master.paths[p]
         /\ Cardinality(DOMAIN master'.paths) = Cardinality(DOMAIN master.paths)
         /\ \A k \in DOMAIN master'.paths : ~HasDoubleSlash(k)
      ]_vars

----------------------------------------------------------------------------
(* SpecTags: Merge on documents that declare tags, under a configuration   *)
(* with and without tagOrder.  A tag of input k carries k as description.  *)

TagLists(k) ==
    LET T(n) == [name |-> n, description |-> k]
    IN  {<<>>, <<T("A")>>, <<T("B"), T("A")>>, <<T("A"), T("B"), T("C")>>,
         <<T("C"), [name |-> "A", description |-> 0], T("C")>>}

TagInputs(k) ==
    {MkInput([MkDoc((<<"/", "a">> :> MkPathItem(("GET" :> MkOp("get", <<"A">>)), <<>>)),
                    EmptyComponents)
              EXCEPT !.tags = ts]) : ts \in TagLists(k)}

TagOrders == {<<>>, <<"B", "A">>, <<"C", "D", "C">>, <<"A">>}

\* The input lists of length n: input k is one of TagInputs(k).
RECURSIVE TagInputLists(_)
TagInputLists(n) ==
    IF n = 0 THEN {<<>>}
    ELSE {Append(ins, input) : ins \in TagInputLists(n - 1), input \in TagInputs(n)}

InitTags ==
    \E n \in 1..MaxInputs : \E ins \in TagInputLists(n), order \in TagOrders :
        MergeStarts(ins, [EmptyCfg EXCEPT !.tagOrder = order])

SpecTags == InitTags /\ [][Next]_vars

\* The place of a name in a list (its first), 0 when it is not there.
FirstIndex(list, x) ==
    IF \E k \in DOMAIN list : list[k] = x
    THEN CHOOSE k \in DOMAIN list : list[k] = x /\ \A j \in 1..(k - 1) : list[j] # x
    ELSE 0

TagNames(tags) == [k \in DOMAIN tags |-> tags[k].name]

C16_TagsFirstWriterWins ==
    /\ \A j, k \in DOMAIN master.tags : master.tags[j].name = master.tags[k].name => j = k
    /\ Range(TagNames(master.tags)) =
          UNION {Range(TagNames(folded[k].tags)) : k \in DOMAIN folded}
    /\ \A t \in Range(master.tags) :
          \E k \in DOMAIN folded :
             /\ FirstIndex(TagNames(folded[k].tags), t.name) > 0
             /\ \A j \in 1..(k - 1) : FirstIndex(TagNames(folded[j].tags), t.name) = 0
             /\ t = folded[k].tags[FirstIndex(TagNames(folded[k].tags), t.name)]
    /\ err # <<>> => err[1].kind = "write"

\* The second document declared tags the first had declared, and a new one:
\* the composite has the first document's A and B and the second's C.
C16_Witness ==
    /\ Len(folded) = 2
    /\ pc = "describe"
    /\ TagNames(folded[1].tags) = <<"B", "A">>
    /\ TagNames(folded[2].tags) = <<"A", "B", "C">>
    /\ master.tags = <<[name |-> "B", description |-> 1], [name |-> "A", description |-> 1],
                       [name |-> "C", description |-> 2]>>

\* C15, as stated: in the written document the paths named in pathsOrder
\* that the composite has come first, ordered as pathsOrder names them and
\* each once, the other paths follow in ascending order, and the path
\* mapping itself is the composite's.
C15_PathOrdering ==
    output # <<>> =>
        LET order == output[1].pathOrder
            n     == Cardinality({p \in DOMAIN master.paths : FirstIndex(cfg.pathsOrder, p) > 0})
        IN  /\ Len(order) = Cardinality(DOMAIN master.paths)
            /\ Range(order) = DOMAIN master.paths
            /\ output[1].paths = master.paths
            /\ \A k \in 1..n : FirstIndex(cfg.pathsOrder, order[k]) > 0
            /\ \A j, k \in 1..n :
                  j < k => FirstIndex(cfg.pathsOrder, order[j]) < FirstIndex(cfg.pathsOrder, order[k])
            /\ \A k \in (n + 1)..Len(order) : FirstIndex(cfg.pathsOrder, order[k]) = 0
            /\ \A j, k \in (n + 1)..Len(order) : j < k => StringLess(order[j], order[k])

----------------------------------------------------------------------------
(* SpecKinds: Merge on documents whose components of the kinds other than  *)
(* schemas have the same names, with equal or different values, with and   *)
(* without a dispute prefix.  A value of tag t carries t.                  *)

OtherKinds ==
    {"responses", "parameters", "securitySchemes", "requestBodies", "headers",
     "examples", "links", "callbacks"}

\* The component of a kind with tag t; node 1 of the document is the schema
\* its media type or header has.
KindValue(kind, t) ==
    CASE kind = "responses"       -> MkResponseRef(NoRef, <<1>>, EmptyMap)
      [] kind = "parameters"      -> MkParam(<<"q">>, "query", t)
      [] kind = "securitySchemes" -> [type |-> "http", scheme |-> t]
      [] kind = "requestBodies"   -> MkRequestBodyRef(NoRef, <<1>>)
      [] kind = "headers"         -> MkHeaderRef(NoRef, <<1>>)
      [] kind = "examples"        -> [summary |-> t]
      [] kind = "links"           -> [operationId |-> t]
      [] kind = "callbacks"       -> [ref |-> NoRef, value |-> <<(t :> MkPathItem(EmptyMap, <<>>))>>]

KindsDoc(kinds, name, t) ==
    [MkDoc((<<"/", "a">> :> MkPathItem(("GET" :> MkOp("get", <<>>)), <<>>)),
           [kind \in DOMAIN EmptyComponents |->
               IF kind \in kinds THEN (name :> KindValue(kind, t)) ELSE EmptyMap])
     EXCEPT !.nodes = <<MkSchemaRef(NoRef, <<MkSchema(t, <<>>)>>)>>]

\* Input k: its values carry "1" (those of input 1) or k; its components
\* are named N, or PN, or N with the dispute prefix P.
KindsInputs(k) ==
    {[MkInput(KindsDoc(kinds, nd[1], t)) EXCEPT !.dispute = nd[2]] :
        kinds \in {OtherKinds, {"responses", "headers", "examples"}},
        nd \in {<<<<"N">>, <<>>>>, <<<<"P", "N">>, <<>>>>, <<<<"N">>, <<<<"P">>>>>>},
        t \in {"1", ToString(k)}}

RECURSIVE KindsInputLists(_)
KindsInputLists(n) ==
    IF n = 0 THEN {<<>>}
    ELSE {Append(ins, input) : ins \in KindsInputLists(n - 1), input \in KindsInputs(n)}

InitKinds ==
    \E n \in 1..MaxInputs : \E ins \in KindsInputLists(n) : MergeStarts(ins, EmptyCfg)

SpecKinds == InitKinds /\ [][Next]_vars

\* C17: while documents are folded, for each kind other than schemas the
\* composite has the names the folded documents have (under their final
\* names), each with the value the earliest of these documents gave it, and
\* Merge raises no collision, with or without a dispute prefix and whether
\* or not the values differ.
C17_OtherKindsFirstWriterWins ==
    ~PostProcessed =>
        /\ \A kind \in OtherKinds :
              /\ DOMAIN master.components[kind] =
                    UNION {DOMAIN folded[k].components[kind] : k \in DOMAIN folded}
              /\ \A n \in DOMAIN master.components[kind] :
                    \E k \in DOMAIN folded :
                       /\ n \in DOMAIN folded[k].components[kind]
                       /\ \A j \in 1..(k - 1) : n \notin DOMAIN folded[j].components[kind]
                       /\ master.components[kind][n] = folded[k].components[kind][n]
        /\ err = <<>>
        /\ pc # "done"

\* Two documents gave different values to the same names, the second under
\* the dispute prefix P meeting the first's PN; the composite has the
\* first's values and Merge goes on.
C17_Witness ==
    /\ Len(folded) = 2
    /\ pc = "describe"
    /\ hasDisputePrefix(inputs[2])
    /\ \A kind \in OtherKinds :
          /\ DOMAIN folded[1].components[kind] = {<<"P", "N">>}
          /\ DOMAIN folded[2].components[kind] \subseteq {<<"P", "N">>, <<"N">>}
          /\ folded[1].components[kind] # folded[2].components[kind]
    /\ master.components.responses = folded[1].components.responses
    /\ master.components.headers[<<"P", "N">>] = folded[1].components.headers[<<"P", "N">>]
    /\ master.components.headers[<<"N">>] = folded[2].components.headers[<<"N">>]

----------------------------------------------------------------------------
(* SpecParams: Merge on one document whose operations carry parameter      *)
(* lists, with parameters to inject and parameter filters configured.      *)

\* The parameter lists of an operation: none, one, two of different pairs,
\* one pair twice (the loader only warns about it) and three.
ParamsLists ==
    LET xq == MkParam(<<"x">>, "query", "doc")
        xh == MkParam(<<"x">>, "header", "doc")
        yq == MkParam(<<"y">>, "query", "doc")
        x2 == MkParam(<<"x">>, "query", "doc'")
    IN  {<<>>, <<xq>>, <<xh, yq>>, <<xq, x2>>, <<yq, xq, xh>>}

\* One path with GET alone or with GET and POST.
ParamsDocs ==
    {MkDoc((<<"/", "a">> :> MkPathItem(
               ("GET" :> [MkOp("g", <<>>) EXCEPT !.parameters = get]), <<>>)),
           EmptyComponents) : get \in ParamsLists}
    \cup
    {MkDoc((<<"/", "a">> :> MkPathItem(
               ("GET" :> [MkOp("g", <<>>) EXCEPT !.parameters = get])
               @@ ("POST" :> [MkOp("p", <<>>) EXCEPT !.parameters = post]), <<>>)),
           EmptyComponents) : get \in ParamsLists, post \in ParamsLists}

\* includeExtraParameters: nothing, one entry, one pair twice with
\* different descriptions, two pairs.
ParamsExtras ==
    LET Xq == [name |-> <<"x">>, in |-> "query", description |-> "cfg", schema |-> <<>>]
        X2 == [name |-> <<"x">>, in |-> "query", description |-> "cfg'", schema |-> <<"integer">>]
        Xh == [name |-> <<"x">>, in |-> "header", description |-> "cfg", schema |-> <<>>]
        Zq == [name |-> <<"z">>, in |-> "query", description |-> "cfg", schema |-> <<>>]
    IN  {<<>>, <<Xq>>, <<Xq, X2>>, <<Zq, Xh>>}

\* excludeParameters: nothing, a name at any location, a name at one
\* location, two filters.
ParamsFilters ==
    {<<>>,
     <<[name |-> <<"x">>, in |-> ""]>>,
     <<[name |-> <<"x">>, in |-> "query"]>>,
     <<[name |-> <<"y">>, in |-> "query"], [name |-> <<"x">>, in |-> "header"]>>}

InitParams ==
    \E doc \in ParamsDocs, extra \in ParamsExtras, filters \in ParamsFilters :
        MergeStarts(<<[MkInput(doc) EXCEPT !.includeExtraParameters = extra,
                                           !.excludeParameters = filters]>>, EmptyCfg)

SpecParams == InitParams /\ [][Next]_vars

\* The parameters of a list that have the pair (name, location).
WithPair(params, name, in) ==
    {k \in DOMAIN params : params[k].value[1].name = name /\ params[k].value[1].in = in}

\* The first configured entry with the pair of entry c.
FirstWithPair(extra, c) ==
    extra[CHOOSE k \in DOMAIN extra :
            /\ extra[k].name = c.name /\ extra[k].in = c.in
            /\ \A j \in 1..(k - 1) : ~(extra[j].name = c.name /\ extra[j].in = c.in)]

\* C18: when an input has parameters to inject and no filters, the stage
\* leaves each operation's own parameters in place and unchanged, appends
\* for each configured pair the operation lacks exactly one parameter
\* (the first entry configured with the pair), appends nothing for a pair
\* the operation has, and leaves each operation with at most one parameter
\* of each configured pair.
C18_ParameterInjection ==
    [][(pc = "params" /\ inputs[i].excludeParameters = <<>>) =>
        \A p \in DOMAIN spec.paths : \A m \in DOMAIN spec.paths[p].ops :
            LET old   == spec.paths[p].ops[m].parameters
                new   == spec'.paths[p].ops[m].parameters
                extra == inputs[i].includeExtraParameters
                added == {k \in DOMAIN new : k > Len(old)}
            IN  /\ Len(new) >= Len(old)
                /\ SubSeq(new, 1, Len(old)) = old
                /\ \A k \in added : \E e \in DOMAIN extra :
                      /\ new[k].value[1].name = extra[e].name
                      /\ new[k].value[1].in = extra[e].in
                /\ \A e \in DOMAIN extra :
                      LET c    == extra[e]
                          mine == WithPair(new, c.name, c.in) \cap added
                      IN  /\ WithPair(old, c.name, c.in) # {} => mine = {}
                          /\ WithPair(old, c.name, c.in) = {} =>
                                /\ Cardinality(mine) = 1
                                /\ \A k \in mine :
                                      new[k].value[1].description =
                                          FirstWithPair(extra, c).description
                          /\ Cardinality(WithPair(new, c.name, c.in)) <= 1]_vars

\* A parameter matches one of the filters.
Filtered(param, filters) ==
    \E f \in DOMAIN filters :
        /\ filters[f].name = param.value[1].name
        /\ filters[f].in = "" \/ filters[f].in = param.value[1].in

\* C19: when an input has parameter filters, after the stage no operation
\* has a parameter that matches a filter, whether the document had it or
\* the stage injected it; the operation's own parameters that match no
\* filter come first, in their old order, followed by one parameter for
\* each configured pair that the operation lacked and no filter matches.
C19_ParameterRemoval ==
    [][(pc = "params" /\ inputs[i].excludeParameters # <<>>) =>
        \A p \in DOMAIN spec.paths : \A m \in DOMAIN spec.paths[p].ops :
            LET old     == spec.paths[p].ops[m].parameters
                new     == spec'.paths[p].ops[m].parameters
                extra   == inputs[i].includeExtraParameters
                filters == inputs[i].excludeParameters
                Stays(param) == ~Filtered(param, filters)
                stay    == SelectSeq(old, Stays)
            IN  /\ \A k \in DOMAIN new : ~Filtered(new[k], filters)
                /\ Len(new) >= Len(stay)
                /\ SubSeq(new, 1, Len(stay)) = stay
                /\ \A k \in (Len(stay) + 1)..Len(new) : \E e \in DOMAIN extra :
                      /\ new[k].value[1].name = extra[e].name
                      /\ new[k].value[1].in = extra[e].in
                      /\ WithPair(old, extra[e].name, extra[e].in) = {}
                /\ \A e \in DOMAIN extra :
                      (/\ WithPair(old, extra[e].name, extra[e].in) = {}
                       /\ \A f \in DOMAIN filters :
                             ~(/\ filters[f].name = extra[e].name
                               /\ filters[f].in = "" \/ filters[f].in = extra[e].in))
                      => Cardinality(WithPair(new, extra[e].name, extra[e].in)) = 1]_vars

\* The filter (x, any location) with (z, query) and (x, header) configured
\* on an operation that has (x, query) alone: the stage has run; the
\* operation's own x is gone, the injected (x, header) is gone too and the
\* injected z is what is left.
C19_Witness ==
    /\ pc = "dispute"
    /\ LET old == orig.paths[<<"/", "a">>].ops["GET"].parameters
       IN  /\ Len(old) = 1
           /\ old[1].value[1].name = <<"x">> /\ old[1].value[1].in = "query"
    /\ Len(inputs[1].includeExtraParameters) = 2
    /\ inputs[1].includeExtraParameters[1].name = <<"z">>
    /\ inputs[1].includeExtraParameters[2].name = <<"x">>
    /\ inputs[1].includeExtraParameters[2].in = "header"
    /\ inputs[1].excludeParameters = <<[name |-> <<"x">>, in |-> ""]>>
    /\ LET new == spec.paths[<<"/", "a">>].ops["GET"].parameters
       IN  /\ Len(new) = 1
           /\ new[1].value[1].name = <<"z">>
           /\ new[1].value[1].description = "cfg"

----------------------------------------------------------------------------
(* SpecDescribe: Merge on documents with descriptions, with description    *)
(* appending configured per input and an info override configured.         *)

\* config.DescriptionConfig values: none, append off, append on without a
\* title, with a title whose level is not configured (0) and with a title
\* of level 3.
DescribeConfigs ==
    {<<>>,
     <<[append |-> FALSE, title |-> <<[value |-> <<"T">>, headingLevel |-> 3]>>]>>,
     <<[append |-> TRUE, title |-> <<>>]>>,
     <<[append |-> TRUE, title |-> <<[value |-> <<"T">>, headingLevel |-> 0]>>]>>,
     <<[append |-> TRUE, title |-> <<[value |-> <<"T">>, headingLevel |-> 3]>>]>>}

\* Input k: a document without paths whose description is empty or "dk".
DescribeInputs(k) ==
    {[MkInput([MkDoc(EmptyMap, EmptyComponents) EXCEPT !.description = desc])
        EXCEPT !.description = descCfg] :
        desc \in {<<>>, <<"d", ToString(k)>>}, descCfg \in DescribeConfigs}

RECURSIVE DescribeInputLists(_)
DescribeInputLists(n) ==
    IF n = 0 THEN {<<>>}
    ELSE {Append(ins, input) : ins \in DescribeInputLists(n - 1), input \in DescribeInputs(n)}

\* config.InfoConfig values: none, one with every field empty, one with
\* every field set, one with the title alone, one with the description
\* alone, one with a contact and a license whose fields are all empty.
DescribeInfos ==
    {<<>>,
     <<MkInfo("", "", <<>>)>>,
     <<[MkInfo("T", "2", <<"c">>) EXCEPT !.termsOfService = "tos",
                                        !.contact = <<"c">>, !.license = <<"l">>]>>,
     <<MkInfo("T", "", <<>>)>>,
     <<MkInfo("", "", <<"c">>)>>,
     <<[MkInfo("", "", <<>>) EXCEPT !.contact = <<"">>, !.license = <<"">>]>>}

InitDescribe ==
    \E n \in 1..MaxInputs : \E ins \in DescribeInputLists(n) : \E info \in DescribeInfos :
        MergeStarts(ins, [EmptyCfg EXCEPT !.info = info])

SpecDescribe == InitDescribe /\ [][Next]_vars

\* The inputs, in input order, that request appending and whose document
\* has a description.
Appending ==
    SelectSeq([k \in DOMAIN inputs |-> k],
              LAMBDA k : /\ inputs[k].description # <<>>
                         /\ inputs[k].description[1].append
                         /\ inputs[k].doc.description # <<>>)

\* The parts put one after the other, a blank line between two of them;
\* an empty text before the first part takes no blank line.
RECURSIVE Glued(_, _)
Glued(text, parts) ==
    IF parts = <<>> THEN text
    ELSE Glued(IF text = <<>> THEN Head(parts) ELSE text \o <<"\n\n">> \o Head(parts),
               Tail(parts))

\* C21: the override step leaves as the composite's description the
\* configured info description (the composite's own when none is configured
\* or it is empty) followed by the formatted descriptions of the inputs
\* that request appending and whose document has a description, in input
\* order, a blank line between two parts and none at the start.
C21_DescriptionConcatenation ==
    [][pc = "overrides" =>
        LET base  == IF cfg.info # <<>> /\ cfg.info[1].description # <<>>
                     THEN cfg.info[1].description
                     ELSE master.info.description
            parts == [n \in DOMAIN Appending |->
                        formatDescription(inputs[Appending[n]].doc.description,
                                          inputs[Appending[n]].description[1])]
        IN  master'.info.description = Glued(base, parts)]_vars

\* Two inputs, both appending, no description configured: the composite's
\* description is the first's, a blank line and the second's.
C21_Witness ==
    /\ pc = "sort"
    /\ Len(inputs) = 2
    /\ Appending = <<1, 2>>
    /\ cfg.info = <<>>
    /\ inputs[1].description[1].title = <<>>
    /\ inputs[2].description[1].title = <<>>
    /\ master.info.description = <<"d", "1", "\n\n", "d", "2">>

\* The value a field of the composite's info has after the override
\* according to the non-empty-wins rule.
NonEmptyWins(configured, kept, empty) == IF configured # empty THEN configured ELSE kept

\* C22, as stated: the override step leaves each of title, version,
\* description, terms of service, contact and license equal to the
\* configured value when one is configured and not empty, and to the value
\* the composite had otherwise.
C22_InfoOverridesEveryField ==
    [][(pc = "overrides" /\ cfg.info # <<>>) =>
        LET c == cfg.info[1]
        IN  /\ master'.info.title = NonEmptyWins(c.title, master.info.title, "")
            /\ master'.info.version = NonEmptyWins(c.version, master.info.version, "")
            /\ master'.info.description =
                  NonEmptyWins(c.description, master.info.description, <<>>)
            /\ master'.info.termsOfService =
                  NonEmptyWins(c.termsOfService, master.info.termsOfService, "")
            /\ master'.info.contact = NonEmptyWins(c.contact, master.info.contact, <<>>)
            /\ master'.info.license = NonEmptyWins(c.license, master.info.license, <<>>)]_vars

\* C22: the override step leaves each of title, version, terms of service,
\* contact and license equal to the configured value when one is
\* configured and not empty (not nil for contact and license), and to the
\* value the composite had otherwise; the description begins with the
\* value this rule gives and is equal to it when no input appends its
\* description.
C22_InfoOverrides ==
    [][(pc = "overrides" /\ cfg.info # <<>>) =>
        LET c == cfg.info[1]
            description == NonEmptyWins(c.description, master.info.description, <<>>)
        IN  /\ master'.info.title = NonEmptyWins(c.title, master.info.title, "")
            /\ master'.info.version = NonEmptyWins(c.version, master.info.version, "")
            /\ HasPrefix(master'.info.description, description)
            /\ Appending = <<>> => master'.info.description = description
            /\ master'.info.termsOfService =
                  NonEmptyWins(c.termsOfService, master.info.termsOfService, "")
            /\ master'.info.contact = NonEmptyWins(c.contact, master.info.contact, <<>>)
            /\ master'.info.license = NonEmptyWins(c.license, master.info.license, <<>>)]_vars

\* The description alone is configured and the input appends its own: the
\* composite keeps the title and the version it had and its description
\* is the configured one followed by the input's.
C22_Witness ==
    /\ pc = "sort"
    /\ Len(inputs) = 1
    /\ cfg.info = <<MkInfo("", "", <<"c">>)>>
    /\ Appending = <<1>>
    /\ inputs[1].description[1].title = <<>>
    /\ master.info.title = "Merged API"
    /\ master.info.version = "1.0.0"
    /\ master.info.contact = <<>>
    /\ master.info.description = <<"c", "\n\n", "d", "1">>

----------------------------------------------------------------------------
(* SpecHeading: Merge on one document whose description is appended under  *)
(* a title, for every heading level of a range around 1..6.                *)

\* The heading levels tried are -MaxHeadingLevel..MaxHeadingLevel; 0 is
\* what the configuration holds when no level is written.
MaxHeadingLevel == 8

HeadingLevels == (0 - MaxHeadingLevel)..MaxHeadingLevel

HeadingInputs ==
    {[MkInput([MkDoc(EmptyMap, EmptyComponents) EXCEPT !.description = desc])
        EXCEPT !.description =
                  <<[append |-> TRUE,
                     title |-> <<[value |-> value, headingLevel |-> level]>>]>>] :
        desc \in {<<>>, <<"d">>, <<"#", "d">>}, value \in {<<>>, <<"T">>, <<"#", "T">>},
        level \in HeadingLevels}

InitHeading == \E input \in HeadingInputs : MergeStarts(<<input>>, EmptyCfg)

SpecHeading == InitHeading /\ [][Next]_vars

\* The number of '#' a text begins with.
RECURSIVE Hashes(_)
Hashes(text) ==
    IF text # <<>> /\ Head(text) = "#" THEN 1 + Hashes(Tail(text)) ELSE 0

\* The level clamped to 1..6.
Clamped(level) == IF level < 1 THEN 1 ELSE IF level > 6 THEN 6 ELSE level

\* An appended description is queued under a heading: the input has a
\* title that is not empty and its document a description.
Headed ==
    /\ inputs[i].description[1].title[1].value # <<>>
    /\ inputs[i].doc.description # <<>>

\* C23, as stated: the heading queued for an appended description has as
\* many '#' as the configured level clamped to 1..6, and 2 when no level is
\* configured.
C23_HeadingLevelClamped ==
    [][(pc = "describe" /\ Headed) =>
        LET level == inputs[i].description[1].title[1].headingLevel
            text  == mergedDescriptions'[Len(mergedDescriptions')]
        IN  /\ Len(mergedDescriptions') = Len(mergedDescriptions) + 1
            /\ text[(IF level = 0 THEN 2 ELSE Clamped(level)) + 1] = " "
            /\ \A k \in 1..(IF level = 0 THEN 2 ELSE Clamped(level)) : text[k] = "#"]_vars

\* C23: the heading queued for an appended description is as many '#' as
\* the configured level when the level is one of 1..6 and two '#' for every
\* other level (0, which is no level configured, included), then a space,
\* the title, a blank line and the description; so every heading has
\* between 1 and 6 '#' before the space.
C23_HeadingLevel ==
    [][(pc = "describe" /\ Headed) =>
        LET level  == inputs[i].description[1].title[1].headingLevel
            text   == mergedDescriptions'[Len(mergedDescriptions')]
            hashes == IF level \in 1..6 THEN level ELSE 2
        IN  /\ Len(mergedDescriptions') = Len(mergedDescriptions) + 1
            /\ hashes \in 1..6
            /\ Len(text) = hashes + 1 + Len(inputs[i].description[1].title[1].value) + 1
                              + Len(inputs[i].doc.description)
            /\ \A k \in 1..hashes : text[k] = "#"
            /\ text[hashes + 1] = " "
            /\ SubSeq(text, hashes + 2, Len(text)) =
                  inputs[i].description[1].title[1].value \o <<"\n\n">>
                     \o inputs[i].doc.description]_vars

\* The level 7 is configured for the title T of the description d: the
\* queued text is "## T", a blank line and d.
C23_Witness ==
    /\ pc = "overrides"
    /\ inputs[1].description[1].title[1].headingLevel = 7
    /\ mergedDescriptions = << <<"#", "#", " ", "T", "\n\n", "d">> >>

----------------------------------------------------------------------------
(* SpecGlob: Merge on one document with one path and GET on it, with one   *)
(* includePaths rule; the path stays exactly when the rule's pattern       *)
(* matches it.                                                             *)

\* Patterns: /a, /b, /*, /a/*, /a/*/b, *, /a*, /*/*, and the invalid /[a
\* and [.  (/a/* and /a/u/v stand for the test's /api/* and
\* /api/users/123.)
GlobPatterns ==
    {<<"/", "a">>, <<"/", "b">>, <<"/", "*">>, <<"/", "a", "/", "*">>,
     <<"/", "a", "/", "*", "/", "b">>, <<"*">>, <<"/", "a", "*">>,
     <<"/", "*", "/", "*">>, <<"/", "[", "a">>, <<"[">>}

GlobPaths ==
    {<<"/", "a">>, <<"/", "b">>, <<"/", "a", "/", "u">>, <<"/", "a", "/", "u", "/", "v">>,
     <<"/", "a", "/", "v", "/", "b">>, <<"/", "a", "/", "b">>, <<"/", "a", "b">>,
     <<"/", "[", "a">>, <<"/", "[", "a", "/", "b">>, <<"/">>, <<"/", "a", "/">>}

InitGlob ==
    \E pattern \in GlobPatterns, path \in GlobPaths :
        MergeStarts(
            <<[MkInput(MkDoc((path :> MkPathItem(("GET" :> MkOp("g", <<>>)), <<>>)),
                             EmptyComponents))
                 EXCEPT !.operationSelection =
                    <<[includeTags |-> <<>>, excludeTags |-> <<>>,
                       includePaths |-> <<[path |-> pattern, method |-> ""]>>,
                       excludePaths |-> <<>>]>>]>>,
            EmptyCfg)

SpecGlob == InitGlob /\ [][Next]_vars

\* The pattern has an opening bracket that no later closing bracket
\* follows: it is not a valid glob.
Invalid(pattern) ==
    \E k \in DOMAIN pattern :
        pattern[k] = "[" /\ \A j \in (k + 1)..Len(pattern) : pattern[j] # "]"

\* The path is the pattern with every '*' replaced by some run of
\* characters, of any length and of any characters.
StarsFilled(pattern, path) ==
    LET stars == {k \in DOMAIN pattern : pattern[k] = "*"}
    IN  \E run \in [stars -> 0..Len(path)] :
           LET Width(k) == IF k \in stars THEN run[k] ELSE 1
               RECURSIVE Start(_)
               Start(k) == IF k = 1 THEN 1 ELSE Start(k - 1) + Width(k - 1)
           IN  /\ Start(Len(pattern)) + Width(Len(pattern)) = Len(path) + 1
               /\ \A k \in DOMAIN pattern : k \notin stars => path[Start(k)] = pattern[k]

----------------------------------------------------------------------------
(* SpecCycle: Merge on one document whose schemas refer to each other, in  *)
(* a cycle or not, with and without a dispute prefix.                      *)

\* The SchemaRef objects of a document, by shape.  A "$ref" node has the
\* Schema object of its target as its Value, as the loader resolves it, so
\* it has the target's nested schemas.
\*   tree    1 = schemas.N with the inline property 2
\*   chain   1 = schemas.N; 2 = schemas.M with the property 3, "$ref" to N
\*   self    1 = schemas.N with the property 2, "$ref" to N
\*   mutual  1 = schemas.N with the property 2, "$ref" to M;
\*           3 = schemas.M with the property 4, "$ref" to N
\* In every shape the last node is the media-type schema of the response
\* of GET /a, "$ref" to N.
CycleNodes(shape) ==
    CASE shape = "tree" ->
            <<MkSchemaRef(NoRef, <<MkSchema("N", <<2>>)>>),
              MkSchemaRef(NoRef, <<MkSchema("p", <<>>)>>),
              MkSchemaRef(MkRef("schemas", <<"N">>), <<MkSchema("N", <<2>>)>>)>>
      [] shape = "chain" ->
            <<MkSchemaRef(NoRef, <<MkSchema("N", <<>>)>>),
              MkSchemaRef(NoRef, <<MkSchema("M", <<3>>)>>),
              MkSchemaRef(MkRef("schemas", <<"N">>), <<MkSchema("N", <<>>)>>),
              MkSchemaRef(MkRef("schemas", <<"N">>), <<MkSchema("N", <<>>)>>)>>
      [] shape = "self" ->
            <<MkSchemaRef(NoRef, <<MkSchema("N", <<2>>)>>),
              MkSchemaRef(MkRef("schemas", <<"N">>), <<MkSchema("N", <<2>>)>>),
              MkSchemaRef(MkRef("schemas", <<"N">>), <<MkSchema("N", <<2>>)>>)>>
      [] shape = "mutual" ->
            <<MkSchemaRef(NoRef, <<MkSchema("N", <<2>>)>>),
              MkSchemaRef(MkRef("schemas", <<"M">>), <<MkSchema("M", <<4>>)>>),
              MkSchemaRef(NoRef, <<MkSchema("M", <<4>>)>>),
              MkSchemaRef(MkRef("schemas", <<"N">>), <<MkSchema("N", <<2>>)>>),
              MkSchemaRef(MkRef("schemas", <<"N">>), <<MkSchema("N", <<2>>)>>)>>

CycleSchemas(shape) ==
    CASE shape = "tree"   -> (<<"N">> :> 1)
      [] shape = "chain"  -> (<<"N">> :> 1) @@ (<<"M">> :> 2)
      [] shape = "self"   -> (<<"N">> :> 1)
      [] shape = "mutual" -> (<<"N">> :> 1) @@ (<<"M">> :> 3)

CycleShapes == {"tree", "chain", "self", "mutual"}

\* The shapes in which a schema is reached again from itself.
Cyclic(shape) == shape \in {"self", "mutual"}

CycleDoc(shape, withPath) ==
    [MkDoc(IF withPath
           THEN (<<"/", "a">> :> MkPathItem(
                    ("GET" :> [MkOp("g", <<>>) EXCEPT
                        !.responses = ("200" :> MkResponseRef(NoRef,
                                          <<Len(CycleNodes(shape))>>, EmptyMap))]), <<>>))
           ELSE EmptyMap,
           [EmptyComponents EXCEPT !.schemas = CycleSchemas(shape)])
     EXCEPT !.nodes = CycleNodes(shape)]

InitCycle ==
    \E shape \in CycleShapes, withPath \in BOOLEAN, dispute \in {<<>>, <<<<"P">>>>, <<<<"V">>>>} :
        MergeStarts(<<[MkInput(CycleDoc(shape, withPath)) EXCEPT !.dispute = dispute]>>,
                    EmptyCfg)

SpecCycle == InitCycle /\ [][Next]_vars

\* C25: the conflict resolution step of every document finishes and Merge
\* goes on to fold the document, also when the document's schemas refer to
\* themselves or to each other in a cycle.
C25_RewritingTerminates ==
    [][pc = "dispute" => pc' = "merge"]_vars

----------------------------------------------------------------------------
(* Claims on the reference occurrences of SpecDispute's documents.         *)

\* What a reference string that named a component of the document before
\* conflict resolution with prefix P has to be afterwards.
Prefixed(ref, P) ==
    IF ref.kind \in ComponentKinds /\ ref.name \in DOMAIN prev.components[ref.kind]
    THEN MkRef(ref.kind, P \o ref.name)
    ELSE ref

\* C26: after conflict resolution with prefix P every reference occurrence
\* of the document (each SchemaRef, and the references the operation holds
\* to a parameter, a request body, responses, headers and callbacks) that
\* named the component N of a kind names P+N of that kind, whether or not
\* the document had a component P+N and whatever the number of routes on
\* which the occurrence is reached.
C26_RewrittenOnce ==
    Resolved =>
        LET P   == inputs[i].dispute[1]
            old == prev.paths[<<"/", "a">>].ops["GET"]
            new == spec.paths[<<"/", "a">>].ops["GET"]
        IN  /\ \A n \in DOMAIN prev.nodes : spec.nodes[n].ref = Prefixed(prev.nodes[n].ref, P)
            /\ \A k \in DOMAIN old.parameters :
                  new.parameters[k].ref = Prefixed(old.parameters[k].ref, P)
            /\ \A k \in DOMAIN old.requestBody :
                  new.requestBody[k].ref = Prefixed(old.requestBody[k].ref, P)
            /\ \A c \in DOMAIN old.responses :
                  /\ new.responses[c].ref = Prefixed(old.responses[c].ref, P)
                  /\ \A h \in DOMAIN old.responses[c].value[1].headers :
                        new.responses[c].value[1].headers[h].ref =
                           Prefixed(old.responses[c].value[1].headers[h].ref, P)
            /\ \A c \in DOMAIN old.callbacks :
                  new.callbacks[c].ref = Prefixed(old.callbacks[c].ref, P)

----------------------------------------------------------------------------
(* Claims on the walks over Go maps, checked under SpecRewrite.            *)

\* C27: the order in which a map is walked decides nothing: the path
\* rewrite leaves the same document for every order of the walk over the
\* document's paths, and the fold leaves the same composite and the same
\* error (or none) for every order of the walk over the document's
\* schemas; so two runs on the same configuration and inputs end alike.
C27_Determinism ==
    [][/\ pc = "paths" =>
             \A order \in Orders(DOMAIN spec.paths) :
                 spec' = modifyPaths(spec, inputs[i], order)
       /\ pc = "merge" =>
             \A order \in Orders(DOMAIN spec.components.schemas) :
                 LET r == mergeSpec(master, marshalSpec(spec), inputs[i], order)
                 IN  /\ master' = r.master
                     /\ (err' = <<>>) <=> (r.err = <<>>)
                     /\ r.err # <<>> => err'[1].name = r.err[1]]_vars

\* C28: the path rewrite leaves the document with as many paths as it had,
\* and every operation it had is, under the same method, the operation of
\* its path's rewritten key, also when two paths have the same rewritten
\* key.
C28_RewriteLosesNothing ==
    [][(pc = "paths" /\ inputs[i].pathModification # <<>>) =>
        /\ Cardinality(DOMAIN spec'.paths) = Cardinality(DOMAIN spec.paths)
        /\ \A p \in DOMAIN spec.paths : \A m \in DOMAIN spec.paths[p].ops :
              LET key == StatedKey(p, inputs[i].pathModification[1])
              IN  /\ key \in DOMAIN spec'.paths
                  /\ m \in DOMAIN spec'.paths[key].ops
                  /\ spec'.paths[key].ops[m] = spec.paths[p].ops[m]]_vars

----------------------------------------------------------------------------
(* SpecSecurity: Merge on one document with security schemes and security  *)
(* requirements, with and without a dispute prefix.                        *)

\* A security requirement is written as the name of the scheme it asks
\* for; an operation's and the document's `security` are lists of them.
SecuritySchemeSets == {{<<"S">>}, {<<"S">>, <<"P", "S">>}}

\* The lists of requirements that name schemes of the document.
SecurityLists(schemes) == {<<>>} \cup {<<n>> : n \in schemes}

SecurityDocs ==
    UNION {{[MkDoc((<<"/", "a">> :> MkPathItem(
                       ("GET" :> [MkOp("g", <<>>) EXCEPT !.security = ofOp]), <<>>)),
                   [EmptyComponents EXCEPT
                       !.securitySchemes = [n \in schemes |-> "bearer"]])
              EXCEPT !.security = ofDoc] :
                ofOp \in SecurityLists(schemes), ofDoc \in SecurityLists(schemes)} :
           schemes \in SecuritySchemeSets}

InitSecurity ==
    \E doc \in SecurityDocs, dispute \in {<<>>, <<<<"P">>>>, <<<<"V">>>>} :
        MergeStarts(<<[MkInput(doc) EXCEPT !.dispute = dispute]>>, EmptyCfg)

SpecSecurity == InitSecurity /\ [][Next]_vars

\* The scheme names the security requirements of a document ask for: those
\* of its operations and its own.
Required(doc) ==
    UNION {UNION {Range(doc.paths[p].ops[m].security) : m \in DOMAIN doc.paths[p].ops} :
              p \in DOMAIN doc.paths}
    \cup Range(doc.security)

\* C29: conflict resolution leaves every security requirement of the
\* document and of its operations naming a security scheme the document's
\* components have.
C29_SecurityResolvable ==
    [][(pc = "dispute" /\ hasDisputePrefix(inputs[i])) =>
        Required(spec') \subseteq DOMAIN spec'.components.securitySchemes]_vars

----------------------------------------------------------------------------
(* SpecFetch: Merge on inputs given as local files and as URLs, with and   *)
(* without GITHUB_TOKEN in the environment.                                *)

\* The input files, taken apart into scheme, host labels, separators and
\* the rest:
\*   spec.json
\*   https://github.com/o/r/blob/f.json
\*   https://github.com/o/f.json
\*   http://github.com/o/f.json
\*   https://raw.githubusercontent.com/o/f.json
\*   https://o.github.io/f.json
\*   https://example.com/f.json
\*   https://example.com/github.com/f.json
\*   https://example.com/f.json?ref=github.io
\*   https://mygithub.com/f.json
\*   https://github.com.example.com/f.json
FetchFiles ==
    {<<"spec.json">>,
     <<"https://", "github.com", "/", "o", "/", "r", "/", "blob", "/", "f.json">>,
     <<"https://", "github.com", "/", "o", "/", "f.json">>,
     <<"http://", "github.com", "/", "o", "/", "f.json">>,
     <<"https://", "raw", ".", "githubusercontent.com", "/", "o", "/", "f.json">>,
     <<"https://", "o", ".", "github.io", "/", "f.json">>,
     <<"https://", "example.com", "/", "f.json">>,
     <<"https://", "example.com", "/", "github.com", "/", "f.json">>,
     <<"https://", "example.com", "/", "f.json", "?", "ref=", "github.io">>,
     <<"https://", "my", "github.com", "/", "f.json">>,
     <<"https://", "github.com", ".", "example.com", "/", "f.json">>}

FetchInputs ==
    {[MkInput(MkDoc(EmptyMap, EmptyComponents)) EXCEPT !.inputFile = file, !.loads = loads] :
        file \in FetchFiles, loads \in BOOLEAN}

InitFetch ==
    \E input \in FetchInputs, token \in {"", "t"} :
        MergeStartsIn(<<input>>, EmptyCfg, [GITHUB_TOKEN |-> token])

SpecFetch == InitFetch /\ [][Next]_vars

\* The host of a URL: what stands between the scheme and the first '/' or
\* '?'.
HostOf(url) ==
    LET ends == {k \in 2..Len(url) : url[k] \in {"/", "?"}}
        last == IF ends = {} THEN Len(url)
                ELSE (CHOOSE k \in ends : \A j \in ends : k <= j) - 1
    IN  SubSeq(url, 2, last)

\* The host is github.com, githubusercontent.com or github.io, or a
\* subdomain of one of them.
GitHubHost(host) ==
    \E domain \in {"github.com", "githubusercontent.com", "github.io"} :
        \/ host = <<domain>>
        \/ Len(host) > 2 /\ SubSeq(host, Len(host) - 1, Len(host)) = <<".", domain>>

\* C30: every request sent with an Authorization header goes to a GitHub
\* host; a request to any other host, whatever its path and query hold,
\* has no Authorization header.
C30_TokenOnlyToGitHub ==
    \A k \in DOMAIN requests :
        requests[k].authorization # <<>> => GitHubHost(HostOf(requests[k].url))

====
